---- MODULE Spec2Model ----
(***************************************************************************)
(* OpenGuard analysis core: policy validation and deny-first merge,        *)
(* risk scoring, the rule engine's scan aggregation, and file discovery    *)
(* with ignore rules and symlink containment; then the rule catalog        *)
(* loader, the match loop of scanFile, the run store and the pull-request  *)
(* comment of the GitHub action.                                           *)
(*                                                                         *)
(* Strings that the code only compares and sorts are atoms ranked by a     *)
(* collation table; strings the code takes apart or concatenates (command  *)
(* keys, finding-id inputs, glob patterns, paths) are sequences of         *)
(* one-character strings.                                                  *)
(***************************************************************************)
EXTENDS Integers, Sequences, FiniteSets, TLC

VARIABLES
    \* policy engine: the two documents read, the validator's verdict and
    \* error list, the validated policies and the merge result
    docA, docB, polPc, polErrors, polBase, polCand, polMerged,
    \* scoring engine: the findings list, how many findings were appended to
    \* the initial list, and the ScoreResult of the last calculateScore call
    findings, appended, score,
    \* rule engine: the file list handed to scanTarget, the rule catalog, the
    \* list the last call returned and the list the call before it returned
    \* (for a file list that was a permutation of this one)
    scanFiles, scanRules, scanPc, scanOut, scanPrevOut,
    \* discovery: the file system, the lines of the ignore file, the position
    \* of discoverFiles, the stack of walkDirectory calls, visitedDirs, the
    \* entries pushed so far (the result once sorted) and the symlinks the
    \* walk passed over as unresolvable or outside the root
    tree, ignoreLines, dPc, dStack, visitedDirs, entries, skippedLinks,
    \* rule loader: the base and override rule directories, the position of
    \* loadRulesWithOverrides, the LoadedRules it returned and the error it
    \* threw
    catBase, catOverride, loadPc, loadedRules, loadError,
    \* the match loop of scanFile for one pattern of one rule on one file
    \* content: the position in the loop, the regex object's lastIndex and
    \* the current match
    loopRule, loopContent, loopPc, loopLastIndex, loopMatch,
    \* run store: the clock, the index file, and what the calls returned:
    \* the entries writeRun returned, in call order, the list listRuns
    \* returned and the entry loadLatestSummary returned
    runNow, runIndex, runWritten, runListed, runLatest,
    \* pull-request comments: the comments of the pull request in creation
    \* order, the id the service gives the next comment and the number of
    \* postOrUpdateComment calls made
    prComments, prNextId, prCalls

polVars == <<docA, docB, polPc, polErrors, polBase, polCand, polMerged>>
scoreVars == <<findings, appended, score>>
scanVars == <<scanFiles, scanRules, scanPc, scanOut, scanPrevOut>>
discVars == <<tree, ignoreLines, dPc, dStack, visitedDirs, entries, skippedLinks>>
loadVars == <<catBase, catOverride, loadPc, loadedRules, loadError>>
loopVars == <<loopRule, loopContent, loopPc, loopLastIndex, loopMatch>>
runVars == <<runNow, runIndex, runWritten, runListed, runLatest>>
prVars == <<prComments, prNextId, prCalls>>

vars == <<polVars, scoreVars, scanVars, discVars, loadVars, loopVars, runVars,
          prVars>>

----------------------------------------------------------------------------
(* Generic helpers                                                         *)

\* An optional value (a TypeScript `x?: T`): <<>> is undefined, <<v>> is v.
None == <<>>
Some(v) == <<v>>

Min(a, b) == IF a <= b THEN a ELSE b
Max(a, b) == IF a >= b THEN a ELSE b

Range(s) == {s[i] : i \in DOMAIN s}

RECURSIVE SeqsOfLen(_, _)
SeqsOfLen(S, n) ==
    IF n = 0 THEN {<<>>}
    ELSE {Append(s, x) : s \in SeqsOfLen(S, n - 1), x \in S}

SeqsUpTo(S, n) == UNION {SeqsOfLen(S, k) : k \in 0..n}

\* the elements of a finite set in a fixed order
RECURSIVE SetToSeq(_)
SetToSeq(S) ==
    IF S = {} THEN <<>>
    ELSE LET x == CHOOSE x \in S : TRUE IN <<x>> \o SetToSeq(S \ {x})

\* Array.prototype.filter
FilterSeq(s, Keep(_)) ==
    LET F[i \in 0..Len(s)] ==
            IF i = 0 THEN <<>>
            ELSE IF Keep(s[i]) THEN Append(F[i - 1], s[i]) ELSE F[i - 1]
    IN  F[Len(s)]

\* Insertion into a JavaScript Set/Map in iteration order: the first element
\* with a given key stays, later ones with the same key are dropped.
DedupeByKey(s, Key(_)) ==
    LET F[i \in 0..Len(s)] ==
            IF i = 0 THEN <<>>
            ELSE IF \E j \in 1..(i - 1) : Key(s[j]) = Key(s[i]) THEN F[i - 1]
            ELSE Append(F[i - 1], s[i])
    IN  F[Len(s)]

\* Array.prototype.sort with a comparator: a stable insertion sort, so that
\* elements the comparator calls equal keep their relative order.
InsertSorted(x, s, Cmp(_, _)) ==
    LET before == {i \in 1..Len(s) : Cmp(x, s[i]) < 0}
        p == IF before = {} THEN Len(s) + 1
             ELSE CHOOSE i \in before : \A j \in before : i <= j
    IN  SubSeq(s, 1, p - 1) \o <<x>> \o SubSeq(s, p, Len(s))

StableSort(s, Cmp(_, _)) ==
    LET F[i \in 0..Len(s)] ==
            IF i = 0 THEN <<>> ELSE InsertSorted(s[i], F[i - 1], Cmp)
    IN  F[Len(s)]

IsSortedBy(s, Cmp(_, _)) ==
    \A i \in 1..(Len(s) - 1) : Cmp(s[i], s[i + 1]) <= 0

Sign(n) == IF n < 0 THEN -1 ELSE IF n > 0 THEN 1 ELSE 0

\* String.prototype.localeCompare on the atoms the policy model uses: the
\* table lists them in collation order.  NUL is the separator commandKey
\* inserts.
NUL == "\\0"
Collation ==
    <<"", NUL, "-k", "-s", "/etc", "/tmp", "/var",
      "a.com", "b.org", "c.net", "curl", "git", "rm">>

Rank(a) == CHOOSE i \in 1..Len(Collation) : Collation[i] = a

localeCompare(a, b) == Sign(Rank(a) - Rank(b))

\* localeCompare on concatenations of atoms, compared atom by atom.
RECURSIVE localeCompareSeq(_, _)
localeCompareSeq(a, b) ==
    IF a = <<>> /\ b = <<>> THEN 0
    ELSE IF a = <<>> THEN -1
    ELSE IF b = <<>> THEN 1
    ELSE IF Head(a) # Head(b) THEN localeCompare(Head(a), Head(b))
    ELSE localeCompareSeq(Tail(a), Tail(b))

\* A string built from atoms: the empty atom contributes no characters.
Chars(a) == IF a = "" THEN <<>> ELSE <<a>>

\* Array.prototype.join("\u0000") over an array of atoms.
RECURSIVE JoinNul(_)
JoinNul(args) ==
    IF args = <<>> THEN <<>>
    ELSE IF Len(args) = 1 THEN Chars(args[1])
    ELSE Chars(Head(args)) \o <<NUL>> \o JoinNul(Tail(args))

----------------------------------------------------------------------------
(* Policy documents                                                        *)

ApprovalCategories ==
    {"shell_exec", "new_domain", "credential_paths", "file_write",
     "elevated_privilege"}

ApprovalModes == {"auto", "prompt", "2-step", "deny"}

APPROVAL_ORDER(mode) ==
    CASE mode = "auto" -> 0
      [] mode = "prompt" -> 1
      [] mode = "2-step" -> 2
      [] mode = "deny" -> 3

APPROVAL_SORT ==
    <<"shell_exec", "new_domain", "credential_paths", "file_write",
      "elevated_privilege">>

\* indexOf: 0-based position, -1 when absent
IndexOfCategory(c) ==
    IF \E i \in 1..Len(APPROVAL_SORT) : APPROVAL_SORT[i] = c
    THEN (CHOOSE i \in 1..Len(APPROVAL_SORT) : APPROVAL_SORT[i] = c) - 1
    ELSE -1

emptyAllow ==
    [commands |-> <<>>,
     paths |-> [read |-> <<>>, write |-> <<>>],
     network |-> [domains |-> <<>>, ports |-> <<>>]]

emptyDeny ==
    [commands |-> <<>>, paths |-> <<>>, network |-> [domains |-> <<>>]]

DenyAll == [mode |-> "deny", except_allowlisted |-> FALSE]

emptyApprovals ==
    [shell_exec |-> DenyAll, new_domain |-> DenyAll,
     credential_paths |-> DenyAll, file_write |-> DenyAll,
     elevated_privilege |-> DenyAll]

emptyPolicy ==
    [version |-> "v1",
     metadata |-> None,
     defaults |-> [action |-> "deny", require_approval_for |-> <<>>],
     allow |-> emptyAllow,
     deny |-> emptyDeny,
     approvals |-> emptyApprovals]

----------------------------------------------------------------------------
(* validatePolicy: every parser appends to one error list and returns a    *)
(* normalized value; the document is accepted iff the list stays empty.    *)
(* A parse result is a record [value, errors]; an error is the field path  *)
(* its message names, as a tuple of strings: the path prefix, then the     *)
(* index or key.  An object is a record; an optional field that is absent  *)
(* holds None.  Every section of a document is an object, every list is an *)
(* array, every number an integer and every list element a string, so the  *)
(* isRecord, Array.isArray, Number.isInteger and list-element type checks  *)
(* never fire; a command's description is a value [type, text] and may be  *)
(* of the wrong type.                                                      *)

METADATA_KEYS == {"name", "description", "created", "author"}
DEFAULTS_KEYS == {"action", "require_approval_for"}
ALLOW_KEYS == {"commands", "paths", "network"}
ALLOW_PATH_KEYS == {"read", "write"}
ALLOW_NETWORK_KEYS == {"domains", "ports"}
DENY_KEYS == {"commands", "paths", "network"}
DENY_NETWORK_KEYS == {"domains"}
COMMAND_RULE_KEYS == {"cmd", "args", "description"}
DENY_COMMAND_RULE_KEYS == {"cmd", "args"}
APPROVALS_KEYS ==
    {"shell_exec", "new_domain", "credential_paths", "file_write",
     "elevated_privilege"}
APPROVAL_CONFIG_KEYS == {"mode", "except_allowlisted"}
POLICY_KEYS == {"version", "metadata", "defaults", "allow", "deny", "approvals"}

\* the fields whose value is None when the key is absent from the object
OptionalFields == {"metadata", "args", "description", "except_allowlisted"}

\* Object.keys(input), in an order fixed by the key set
ObjectKeys(input) ==
    {k \in DOMAIN input : ~(k \in OptionalFields /\ input[k] = None)}

assertNoExtraKeys(input, allowed, path) ==
    LET extra == SetToSeq(ObjectKeys(input) \ allowed)
    IN  [i \in DOMAIN extra |-> path \o <<extra[i]>>]

parseMetadata(input) ==
    [value |-> [k \in (DOMAIN input) \cap METADATA_KEYS |-> input[k]],
     errors |-> assertNoExtraKeys(input, METADATA_KEYS, <<"metadata">>)]

parseNumberArray(input, path) ==
    LET bad(i) == input[i] < 1 \/ input[i] > 65535
        E[i \in 0..Len(input)] ==
            IF i = 0 THEN <<>>
            ELSE IF bad(i) THEN Append(E[i - 1], <<path, ToString(i - 1)>>)
            ELSE E[i - 1]
    IN  [value |-> FilterSeq(input, LAMBDA v : ~(v < 1 \/ v > 65535)),
         errors |-> E[Len(input)]]

parseDefaults(input) ==
    LET actionErr ==
            IF input.action # "deny" /\ input.action # "allow"
            THEN <<<<"defaults.action">>>> ELSE <<>>
        cats == input.require_approval_for
        catErr[i \in 0..Len(cats)] ==
            IF i = 0 THEN <<>>
            ELSE IF cats[i] \notin ApprovalCategories
                 THEN Append(catErr[i - 1],
                             <<"defaults.require_approval_for", cats[i]>>)
                 ELSE catErr[i - 1]
    IN  [value |->
            [action |-> IF input.action = "allow" THEN "allow" ELSE "deny",
             require_approval_for |->
                FilterSeq(cats, LAMBDA c : c \in ApprovalCategories)],
         errors |-> assertNoExtraKeys(input, DEFAULTS_KEYS, <<"defaults">>)
                    \o actionErr \o catErr[Len(cats)]]

\* the errors of one entry of allow.commands: an empty cmd ends the entry's
\* checks (return), so its description is not looked at
CommandRuleErrors(entry, entryPath) ==
    assertNoExtraKeys(entry, COMMAND_RULE_KEYS, entryPath)
    \o (IF entry.cmd = "" THEN <<entryPath \o <<"cmd">>>>
        ELSE IF entry.description # None /\ entry.description[1].type # "string"
             THEN <<entryPath \o <<"description">>>>
        ELSE <<>>)

parseCommandRules(input, path) ==
    LET E[i \in 0..Len(input)] ==
            IF i = 0 THEN <<>>
            ELSE E[i - 1] \o CommandRuleErrors(input[i], <<path, ToString(i - 1)>>)
        kept == FilterSeq(input, LAMBDA r : r.cmd # "")
    IN  [value |->
            [i \in DOMAIN kept |->
                [cmd |-> kept[i].cmd,
                 args |-> kept[i].args,
                 description |->
                    IF /\ kept[i].description # None
                       /\ kept[i].description[1].type = "string"
                    THEN kept[i].description ELSE None]],
         errors |-> E[Len(input)]]

DenyCommandRuleErrors(entry, entryPath) ==
    assertNoExtraKeys(entry, DENY_COMMAND_RULE_KEYS, entryPath)
    \o (IF entry.cmd = "" THEN <<entryPath \o <<"cmd">>>> ELSE <<>>)

\* the rules pushed carry cmd and args only
parseDenyCommandRules(input, path) ==
    LET E[i \in 0..Len(input)] ==
            IF i = 0 THEN <<>>
            ELSE E[i - 1]
                 \o DenyCommandRuleErrors(input[i], <<path, ToString(i - 1)>>)
        kept == FilterSeq(input, LAMBDA r : r.cmd # "")
    IN  [value |->
            [i \in DOMAIN kept |->
                [cmd |-> kept[i].cmd, args |-> kept[i].args,
                 description |-> None]],
         errors |-> E[Len(input)]]

parseAllowPaths(input) ==
    [value |-> [read |-> input.read, write |-> input.write],
     errors |-> assertNoExtraKeys(input, ALLOW_PATH_KEYS, <<"allow.paths">>)]

parseAllowNetwork(input) ==
    LET ports == parseNumberArray(input.ports, "allow.network.ports")
    IN  [value |-> [domains |-> input.domains, ports |-> ports.value],
         errors |-> assertNoExtraKeys(input, ALLOW_NETWORK_KEYS,
                                      <<"allow.network">>)
                    \o ports.errors]

parseAllow(input) ==
    LET commands == parseCommandRules(input.commands, "allow.commands")
        paths == parseAllowPaths(input.paths)
        network == parseAllowNetwork(input.network)
    IN  [value |->
            [commands |-> commands.value,
             paths |-> paths.value,
             network |-> network.value],
         errors |-> assertNoExtraKeys(input, ALLOW_KEYS, <<"allow">>)
                    \o commands.errors \o paths.errors \o network.errors]

parseDenyNetwork(input) ==
    [value |-> [domains |-> input.domains],
     errors |-> assertNoExtraKeys(input, DENY_NETWORK_KEYS, <<"deny.network">>)]

parseDeny(input) ==
    LET commands == parseDenyCommandRules(input.commands, "deny.commands")
        network == parseDenyNetwork(input.network)
    IN  [value |->
            [commands |-> commands.value,
             paths |-> input.paths,
             network |-> network.value],
         errors |-> assertNoExtraKeys(input, DENY_KEYS, <<"deny">>)
                    \o commands.errors \o network.errors]

parseApprovalConfig(input, path) ==
    [value |->
        [mode |-> IF input.mode \in ApprovalModes THEN input.mode ELSE "deny",
         except_allowlisted |->
            IF input.except_allowlisted = None THEN TRUE
            ELSE input.except_allowlisted[1]],
     errors |-> assertNoExtraKeys(input, APPROVAL_CONFIG_KEYS, <<path>>)
                \o (IF input.mode \notin ApprovalModes
                    THEN <<<<path, "mode">>>> ELSE <<>>)]

parseApprovals(input) ==
    LET se == parseApprovalConfig(input.shell_exec, "approvals.shell_exec")
        nd == parseApprovalConfig(input.new_domain, "approvals.new_domain")
        cp == parseApprovalConfig(input.credential_paths,
                                  "approvals.credential_paths")
        fw == parseApprovalConfig(input.file_write, "approvals.file_write")
        ep == parseApprovalConfig(input.elevated_privilege,
                                  "approvals.elevated_privilege")
    IN  [value |->
            [shell_exec |-> se.value, new_domain |-> nd.value,
             credential_paths |-> cp.value, file_write |-> fw.value,
             elevated_privilege |-> ep.value],
         errors |-> assertNoExtraKeys(input, APPROVALS_KEYS, <<"approvals">>)
                    \o se.errors \o nd.errors \o cp.errors \o fw.errors
                    \o ep.errors]

\* parsePolicy with the version check left out
parsePolicy_anyVersion(input) ==
    LET metadata == IF input.metadata = None
                    THEN [value |-> None, errors |-> <<>>]
                    ELSE [value |-> Some(parseMetadata(input.metadata[1]).value),
                          errors |-> parseMetadata(input.metadata[1]).errors]
        defaults == parseDefaults(input.defaults)
        allow == parseAllow(input.allow)
        deny == parseDeny(input.deny)
        approvals == parseApprovals(input.approvals)
    IN  [value |->
            [version |-> "v1",
             metadata |-> metadata.value,
             defaults |-> defaults.value,
             allow |-> allow.value,
             deny |-> deny.value,
             approvals |-> approvals.value],
         errors |-> assertNoExtraKeys(input, POLICY_KEYS, <<"policy">>)
                    \o metadata.errors \o defaults.errors
                    \o allow.errors \o deny.errors \o approvals.errors]

parsePolicy(input) ==
    LET versionErr == IF input.version # "v1" THEN <<<<"policy.version">>>> ELSE <<>>
        metadata == IF input.metadata = None
                    THEN [value |-> None, errors |-> <<>>]
                    ELSE [value |-> Some(parseMetadata(input.metadata[1]).value),
                          errors |-> parseMetadata(input.metadata[1]).errors]
        defaults == parseDefaults(input.defaults)
        allow == parseAllow(input.allow)
        deny == parseDeny(input.deny)
        approvals == parseApprovals(input.approvals)
    IN  [value |->
            [version |-> "v1",
             metadata |-> metadata.value,
             defaults |-> defaults.value,
             allow |-> allow.value,
             deny |-> deny.value,
             approvals |-> approvals.value],
         errors |-> assertNoExtraKeys(input, POLICY_KEYS, <<"policy">>)
                    \o versionErr \o metadata.errors \o defaults.errors
                    \o allow.errors \o deny.errors \o approvals.errors]

----------------------------------------------------------------------------
(* mergePolicy                                                             *)

commandKey(rule) ==
    LET args == IF rule.args = None THEN <<>> ELSE JoinNul(rule.args[1])
    IN  <<rule.cmd, NUL>> \o args

compareCommandRules(a, b) ==
    LET cmdCompare == localeCompare(a.cmd, b.cmd)
        aArgs == IF a.args = None THEN <<>> ELSE JoinNul(a.args[1])
        bArgs == IF b.args = None THEN <<>> ELSE JoinNul(b.args[1])
    IN  IF cmdCompare # 0 THEN cmdCompare ELSE localeCompareSeq(aArgs, bArgs)

sortByCategory(a, b) ==
    LET aIndex == IndexOfCategory(a)
        bIndex == IndexOfCategory(b)
    IN  IF aIndex = -1 /\ bIndex = -1 THEN localeCompare(a, b)
        ELSE IF aIndex = -1 THEN 1
        ELSE IF bIndex = -1 THEN -1
        ELSE aIndex - bIndex

mergeMetadata(base, generated) ==
    IF base # None THEN base
    ELSE IF generated # None THEN generated
    ELSE None

\* mergeDefaults returning the categories in insertion order
mergeDefaults_unsorted(base, generated) ==
    [action |-> IF base.action = "deny" \/ generated.action = "deny"
                THEN "deny" ELSE "allow",
     require_approval_for |->
        DedupeByKey(base.require_approval_for \o generated.require_approval_for,
                    LAMBDA c : c)]

mergeDefaults(base, generated) ==
    [action |-> IF base.action = "deny" \/ generated.action = "deny"
                THEN "deny" ELSE "allow",
     require_approval_for |->
        StableSort(DedupeByKey(base.require_approval_for
                               \o generated.require_approval_for,
                               LAMBDA c : c),
                   sortByCategory)]

\* mergeCommandRules keyed by the command name alone
mergeCommandRules_keyedByCmd(base, generated) ==
    StableSort(DedupeByKey(base \o generated, LAMBDA r : r.cmd),
               compareCommandRules)

mergeCommandRules(base, generated) ==
    StableSort(DedupeByKey(base \o generated, commandKey), compareCommandRules)

mergeStringArray(base, generated) ==
    StableSort(DedupeByKey(base \o generated, LAMBDA v : v), localeCompare)

mergeNumberArray(base, generated) ==
    StableSort(DedupeByKey(base \o generated, LAMBDA v : v),
               LAMBDA a, b : a - b)

mergePaths(base, generated) ==
    [read |-> mergeStringArray(base.read, generated.read),
     write |-> mergeStringArray(base.write, generated.write)]

mergeNetwork(base, generated) ==
    [domains |-> mergeStringArray(base.domains, generated.domains),
     ports |-> mergeNumberArray(base.ports, generated.ports)]

mergeAllow(base, generated) ==
    [commands |-> mergeCommandRules(base.commands, generated.commands),
     paths |-> mergePaths(base.paths, generated.paths),
     network |-> mergeNetwork(base.network, generated.network)]

mergeDeny(base, generated) ==
    [commands |-> mergeCommandRules(base.commands, generated.commands),
     paths |-> mergeStringArray(base.paths, generated.paths),
     network |->
        [domains |-> mergeStringArray(base.network.domains,
                                      generated.network.domains)]]

\* mergeApprovalConfig granting the exception when either input grants it
mergeApprovalConfig_eitherExcept(base, generated) ==
    [mode |-> IF APPROVAL_ORDER(base.mode) >= APPROVAL_ORDER(generated.mode)
              THEN base.mode ELSE generated.mode,
     except_allowlisted |->
        base.except_allowlisted \/ generated.except_allowlisted]

mergeApprovalConfig(base, generated) ==
    [mode |-> IF APPROVAL_ORDER(base.mode) >= APPROVAL_ORDER(generated.mode)
              THEN base.mode ELSE generated.mode,
     except_allowlisted |->
        base.except_allowlisted /\ generated.except_allowlisted]

mergeApprovals(base, generated) ==
    [shell_exec |-> mergeApprovalConfig(base.shell_exec, generated.shell_exec),
     new_domain |-> mergeApprovalConfig(base.new_domain, generated.new_domain),
     credential_paths |->
        mergeApprovalConfig(base.credential_paths, generated.credential_paths),
     file_write |-> mergeApprovalConfig(base.file_write, generated.file_write),
     elevated_privilege |->
        mergeApprovalConfig(base.elevated_privilege,
                            generated.elevated_privilege)]

\* removeDeniedAllows with the filter on allow.paths.write left out
removeDeniedAllows_writeUnfiltered(allow, deny) ==
    LET deniedCommandKeys == {commandKey(deny.commands[i]) :
                                i \in DOMAIN deny.commands}
        deniedPaths == Range(deny.paths)
        deniedDomains == Range(deny.network.domains)
    IN  [commands |->
            StableSort(FilterSeq(allow.commands,
                                 LAMBDA r : commandKey(r) \notin deniedCommandKeys),
                       compareCommandRules),
         paths |->
            [read |-> StableSort(FilterSeq(allow.paths.read,
                                           LAMBDA p : p \notin deniedPaths),
                                 localeCompare),
             write |-> StableSort(allow.paths.write, localeCompare)],
         network |->
            [domains |-> StableSort(FilterSeq(allow.network.domains,
                                              LAMBDA d : d \notin deniedDomains),
                                    localeCompare),
             ports |-> StableSort(allow.network.ports, LAMBDA a, b : a - b)]]

removeDeniedAllows(allow, deny) ==
    LET deniedCommandKeys == {commandKey(deny.commands[i]) :
                                i \in DOMAIN deny.commands}
        deniedPaths == Range(deny.paths)
        deniedDomains == Range(deny.network.domains)
    IN  [commands |->
            StableSort(FilterSeq(allow.commands,
                                 LAMBDA r : commandKey(r) \notin deniedCommandKeys),
                       compareCommandRules),
         paths |->
            [read |-> StableSort(FilterSeq(allow.paths.read,
                                           LAMBDA p : p \notin deniedPaths),
                                 localeCompare),
             write |-> StableSort(FilterSeq(allow.paths.write,
                                            LAMBDA p : p \notin deniedPaths),
                                  localeCompare)],
         network |->
            [domains |-> StableSort(FilterSeq(allow.network.domains,
                                              LAMBDA d : d \notin deniedDomains),
                                    localeCompare),
             ports |-> StableSort(allow.network.ports, LAMBDA a, b : a - b)]]

mergePolicy(base, generated) ==
    LET metadata == mergeMetadata(base.metadata, generated.metadata)
        defaults == mergeDefaults(base.defaults, generated.defaults)
        allow == mergeAllow(base.allow, generated.allow)
        deny == mergeDeny(base.deny, generated.deny)
        approvals == mergeApprovals(base.approvals, generated.approvals)
        normalizedAllow == removeDeniedAllows(allow, deny)
    IN  [version |-> "v1",
         metadata |-> metadata,
         defaults |-> defaults,
         allow |-> normalizedAllow,
         deny |-> deny,
         approvals |-> approvals]

----------------------------------------------------------------------------
(* Policy documents the model draws its inputs from.  Each family varies   *)
(* one section of the document (merge works section by section) and holds  *)
(* the others at the default.                                              *)

MaxAllowLen == 2
MaxDenyLen == 1

PathAtoms == {"/etc", "/tmp"}
DomainAtoms == {"a.com", "b.org"}
PortValues == {0, 80, 443, 65536}

AllowCommandRules ==
    {[cmd |-> "curl", args |-> None, description |-> None],
     [cmd |-> "curl", args |-> Some(<<"">>),
      description |-> Some([type |-> "string", text |-> "fetch"])],
     [cmd |-> "curl", args |-> Some(<<"-s">>), description |-> None]}

DenyCommandRules ==
    {[cmd |-> "curl", args |-> None, description |-> None],
     [cmd |-> "rm", args |-> Some(<<"-s">>), description |-> None]}

PromptUnlessListed == [mode |-> "prompt", except_allowlisted |-> Some(TRUE)]

DefaultDoc ==
    [version |-> "v1",
     metadata |-> None,
     defaults |-> [action |-> "deny", require_approval_for |-> <<>>],
     allow |-> emptyAllow,
     deny |-> emptyDeny,
     approvals |->
        [shell_exec |-> PromptUnlessListed, new_domain |-> PromptUnlessListed,
         credential_paths |-> PromptUnlessListed,
         file_write |-> PromptUnlessListed,
         elevated_privilege |-> PromptUnlessListed]]

DocsRead ==
    {[DefaultDoc EXCEPT !.allow.paths.read = a, !.deny.paths = d] :
        a \in SeqsUpTo(PathAtoms, MaxAllowLen),
        d \in SeqsUpTo(PathAtoms, MaxDenyLen)}

DocsWrite ==
    {[DefaultDoc EXCEPT !.allow.paths.write = a, !.deny.paths = d] :
        a \in SeqsUpTo(PathAtoms, MaxAllowLen),
        d \in SeqsUpTo(PathAtoms, MaxDenyLen)}

DocsDomains ==
    {[DefaultDoc EXCEPT !.allow.network.domains = a,
                        !.deny.network.domains = d] :
        a \in SeqsUpTo(DomainAtoms, MaxAllowLen),
        d \in SeqsUpTo(DomainAtoms, MaxDenyLen)}

DocsCommands ==
    {[DefaultDoc EXCEPT !.allow.commands = a, !.deny.commands = d] :
        a \in SeqsUpTo(AllowCommandRules, MaxAllowLen),
        d \in SeqsUpTo(DenyCommandRules, MaxDenyLen)}

DocsPorts ==
    {[DefaultDoc EXCEPT !.allow.network.ports = a] :
        a \in SeqsUpTo(PortValues, MaxAllowLen)}

DocsDefaults ==
    {[DefaultDoc EXCEPT !.defaults = [action |-> act,
                                      require_approval_for |-> r]] :
        act \in {"allow", "deny", "block"},
        r \in SeqsUpTo({"shell_exec", "file_write", "bogus"}, MaxAllowLen)}

DocsApprovals ==
    {[DefaultDoc EXCEPT !.approvals.shell_exec =
                            [mode |-> m, except_allowlisted |-> e],
                        !.approvals.file_write.mode = fw] :
        m \in ApprovalModes \cup {"never"},
        e \in {None, Some(TRUE), Some(FALSE)},
        fw \in {"auto", "deny"}}

DocsMeta ==
    {[DefaultDoc EXCEPT !.version = v, !.metadata = m] :
        v \in {"v1", "v2"},
        m \in {None, Some([name |-> "base"]), Some([name |-> "generated"])}}

\* a key no object of a policy document may have
ExtraKey == [bogus |-> "x"]

\* the default document with an unsupported key at one nesting level, and
\* documents that break several constraints at once
DocsExtraKeys ==
    { DefaultDoc,
      DefaultDoc @@ ExtraKey,
      [DefaultDoc EXCEPT !.metadata = Some([name |-> "base"] @@ ExtraKey)],
      [DefaultDoc EXCEPT !.defaults = @ @@ ExtraKey],
      [DefaultDoc EXCEPT !.allow = @ @@ ExtraKey],
      [DefaultDoc EXCEPT !.allow.paths = @ @@ ExtraKey],
      [DefaultDoc EXCEPT !.allow.network = @ @@ ExtraKey],
      [DefaultDoc EXCEPT !.deny = @ @@ ExtraKey],
      [DefaultDoc EXCEPT !.deny.network = @ @@ ExtraKey],
      [DefaultDoc EXCEPT !.approvals = @ @@ ExtraKey],
      [DefaultDoc EXCEPT !.approvals.new_domain = @ @@ ExtraKey],
      [DefaultDoc EXCEPT !.allow.commands =
          <<[cmd |-> "curl", args |-> None, description |-> None] @@ ExtraKey>>],
      [DefaultDoc EXCEPT !.deny.commands =
          <<[cmd |-> "rm", args |-> None, description |-> None] @@ ExtraKey>>],
      [DefaultDoc EXCEPT !.deny.commands =
          <<[cmd |-> "rm", args |-> None,
             description |-> Some([type |-> "string", text |-> "fetch"])]>>],
      [DefaultDoc EXCEPT !.version = "v2",
                         !.defaults = [action |-> "block",
                                       require_approval_for |-> <<"bogus">>],
                         !.allow.network.ports = <<0, 80, 65536>>,
                         !.approvals.file_write.mode = "never",
                         !.deny.network = @ @@ ExtraKey] }

\* entries of allow.commands that break the constraints on cmd and
\* description, one at a time and together
BrokenCommandRules ==
    {[cmd |-> "", args |-> None, description |-> None],
     [cmd |-> "", args |-> None,
      description |-> Some([type |-> "number", text |-> "5"])],
     [cmd |-> "curl", args |-> None,
      description |-> Some([type |-> "number", text |-> "5"])],
     [cmd |-> "curl", args |-> None,
      description |-> Some([type |-> "string", text |-> "fetch"])]}

DocsBrokenCommands ==
    {[DefaultDoc EXCEPT !.allow.commands = a] :
        a \in SeqsUpTo(BrokenCommandRules, MaxDenyLen)}

DocFamilies ==
    {DocsRead, DocsWrite, DocsDomains, DocsCommands, DocsPorts, DocsDefaults,
     DocsApprovals, DocsMeta, DocsExtraKeys, DocsBrokenCommands}

----------------------------------------------------------------------------
(* Policy engine: load two documents, validate both, merge.                *)

PolicyIdle ==
    /\ docA = DefaultDoc
    /\ docB = DefaultDoc
    /\ polPc = "idle"
    /\ polErrors = <<>>
    /\ polBase = emptyPolicy
    /\ polCand = emptyPolicy
    /\ polMerged = emptyPolicy

PolicyStart ==
    /\ \E fam \in DocFamilies : docA \in fam /\ docB \in fam
    /\ polPc = "loaded"
    /\ polErrors = <<>>
    /\ polBase = emptyPolicy
    /\ polCand = emptyPolicy
    /\ polMerged = emptyPolicy

\* validatePolicy(docA) then validatePolicy(docB), both accepted
ValidateAccept ==
    /\ polPc = "loaded"
    /\ parsePolicy(docA).errors = <<>>
    /\ parsePolicy(docB).errors = <<>>
    /\ polBase' = parsePolicy(docA).value
    /\ polCand' = parsePolicy(docB).value
    /\ polPc' = "validated"
    /\ UNCHANGED <<docA, docB, polErrors, polMerged>>
    /\ UNCHANGED <<scoreVars, scanVars, discVars, loadVars, loopVars, runVars,
                 prVars>>

\* validatePolicy throws on the first document with a non-empty error list
ValidateReject ==
    /\ polPc = "loaded"
    /\ \/ parsePolicy(docA).errors # <<>>
       \/ parsePolicy(docB).errors # <<>>
    /\ polErrors' = IF parsePolicy(docA).errors # <<>>
                    THEN parsePolicy(docA).errors
                    ELSE parsePolicy(docB).errors
    /\ polPc' = "rejected"
    /\ UNCHANGED <<docA, docB, polBase, polCand, polMerged>>
    /\ UNCHANGED <<scoreVars, scanVars, discVars, loadVars, loopVars, runVars,
                 prVars>>

Merge ==
    /\ polPc = "validated"
    /\ polMerged' = mergePolicy(polBase, polCand)
    /\ polPc' = "merged"
    /\ UNCHANGED <<docA, docB, polErrors, polBase, polCand>>
    /\ UNCHANGED <<scoreVars, scanVars, discVars, loadVars, loopVars, runVars,
                 prVars>>

MergeSelf ==
    /\ polPc = "validated"
    /\ polMerged' = mergePolicy(polBase, polBase)
    /\ polPc' = "mergedSelf"
    /\ UNCHANGED <<docA, docB, polErrors, polBase, polCand>>
    /\ UNCHANGED <<scoreVars, scanVars, discVars, loadVars, loopVars, runVars,
                 prVars>>

NextPolicy == ValidateAccept \/ ValidateReject \/ Merge \/ MergeSelf

----------------------------------------------------------------------------
(* Policy merge properties                                                 *)

CommandKeys(commands) == {commandKey(commands[i]) : i \in DOMAIN commands}

\* C1: after mergePolicy(base, candidate) the merged deny lists are the union
\* of both inputs' deny lists, and nothing in them remains in the merged
\* allow lists: no allow command has the command+args key of a deny command,
\* no allow read or write path equals a deny path, no allow domain equals a
\* deny domain.
MergeDenyDominates ==
    polPc = "merged" =>
        /\ CommandKeys(polMerged.deny.commands) =
              CommandKeys(polBase.deny.commands)
              \cup CommandKeys(polCand.deny.commands)
        /\ Range(polMerged.deny.paths) =
              Range(polBase.deny.paths) \cup Range(polCand.deny.paths)
        /\ Range(polMerged.deny.network.domains) =
              Range(polBase.deny.network.domains)
              \cup Range(polCand.deny.network.domains)
        /\ CommandKeys(polMerged.allow.commands)
              \cap CommandKeys(polMerged.deny.commands) = {}
        /\ Range(polMerged.allow.paths.read)
              \cap Range(polMerged.deny.paths) = {}
        /\ Range(polMerged.allow.paths.write)
              \cap Range(polMerged.deny.paths) = {}
        /\ Range(polMerged.allow.network.domains)
              \cap Range(polMerged.deny.network.domains) = {}

\* C1 witness: a merge in which one input allows what the other denies, for
\* a write path and for a command whose rule differs from the deny rule but
\* has the same key.
MergeDenyDominatesWitness ==
    /\ polPc = "merged"
    /\ \/ Range(polBase.allow.paths.write) \cap Range(polCand.deny.paths) # {}
       \/ \E a \in Range(polCand.allow.commands),
             d \in Range(polBase.deny.commands) :
                a # d /\ commandKey(a) = commandKey(d)

Count(s, x) == Cardinality({i \in DOMAIN s : s[i] = x})

\* two lists that differ at most in the order of their elements
SameUpToOrder(s, t) ==
    /\ Len(s) = Len(t)
    /\ \A x \in Range(s) \cup Range(t) : Count(s, x) = Count(t, x)

SamePolicyUpToOrder(p, q) ==
    /\ p.version = q.version
    /\ p.metadata = q.metadata
    /\ p.defaults.action = q.defaults.action
    /\ SameUpToOrder(p.defaults.require_approval_for,
                     q.defaults.require_approval_for)
    /\ SameUpToOrder(p.allow.commands, q.allow.commands)
    /\ SameUpToOrder(p.allow.paths.read, q.allow.paths.read)
    /\ SameUpToOrder(p.allow.paths.write, q.allow.paths.write)
    /\ SameUpToOrder(p.allow.network.domains, q.allow.network.domains)
    /\ SameUpToOrder(p.allow.network.ports, q.allow.network.ports)
    /\ SameUpToOrder(p.deny.commands, q.deny.commands)
    /\ SameUpToOrder(p.deny.paths, q.deny.paths)
    /\ SameUpToOrder(p.deny.network.domains, q.deny.network.domains)
    /\ p.approvals = q.approvals

NoRepeats(s) == \A i, j \in DOMAIN s : i # j => s[i] # s[j]

NoRepeatedKeys(commands) ==
    \A i, j \in DOMAIN commands :
        i # j => commandKey(commands[i]) # commandKey(commands[j])

\* no list of the policy names an entry twice (commands by command+args key)
HasNoRepeats(p) ==
    /\ NoRepeats(p.defaults.require_approval_for)
    /\ NoRepeatedKeys(p.allow.commands)
    /\ NoRepeats(p.allow.paths.read)
    /\ NoRepeats(p.allow.paths.write)
    /\ NoRepeats(p.allow.network.domains)
    /\ NoRepeats(p.allow.network.ports)
    /\ NoRepeatedKeys(p.deny.commands)
    /\ NoRepeats(p.deny.paths)
    /\ NoRepeats(p.deny.network.domains)

\* no allow entry of the policy is also denied by it
AllowsNothingDenied(p) ==
    /\ CommandKeys(p.allow.commands) \cap CommandKeys(p.deny.commands) = {}
    /\ Range(p.allow.paths.read) \cap Range(p.deny.paths) = {}
    /\ Range(p.allow.paths.write) \cap Range(p.deny.paths) = {}
    /\ Range(p.allow.network.domains) \cap Range(p.deny.network.domains) = {}

\* C2 as stated: for every policy P accepted by validatePolicy,
\* mergePolicy(P, P) equals P on every field up to the order of list elements.
MergeSelfIsIdentity ==
    polPc = "mergedSelf" => SamePolicyUpToOrder(polMerged, polBase)

\* C2 amended: for every policy P accepted by validatePolicy in which no list
\* repeats an entry (commands compared by command+args key) and no allow entry
\* is also denied, mergePolicy(P, P) equals P on every field up to the order
\* of list elements.
MergeSelfIsIdentityWhenNormal ==
    (polPc = "mergedSelf" /\ HasNoRepeats(polBase)
        /\ AllowsNothingDenied(polBase))
    => SamePolicyUpToOrder(polMerged, polBase)

\* C2 witness: a self-merge of such a policy that reorders a two-command list
MergeSelfIsIdentityWitness ==
    /\ polPc = "mergedSelf"
    /\ HasNoRepeats(polBase)
    /\ AllowsNothingDenied(polBase)
    /\ Len(polBase.allow.commands) = 2
    /\ polBase.deny.commands # <<>>
    /\ polMerged # polBase

\* the approval modes from the most permissive to the strictest
StrictnessOrder == <<"auto", "prompt", "2-step", "deny">>

Strictness(mode) ==
    CHOOSE i \in DOMAIN StrictnessOrder : StrictnessOrder[i] = mode

\* C11: for each of the five approval categories the merged mode is the
\* stricter of the two input modes under auto < prompt < 2-step < deny, and
\* the merged except_allowlisted is true only if it is true in both inputs.
MergeApprovalsStricter ==
    polPc = "merged" =>
        \A c \in ApprovalCategories :
            /\ polMerged.approvals[c].mode
                  \in {polBase.approvals[c].mode, polCand.approvals[c].mode}
            /\ Strictness(polMerged.approvals[c].mode) =
                  Max(Strictness(polBase.approvals[c].mode),
                      Strictness(polCand.approvals[c].mode))
            /\ polMerged.approvals[c].except_allowlisted <=>
                  (/\ polBase.approvals[c].except_allowlisted
                   /\ polCand.approvals[c].except_allowlisted)

\* C11 witness: a merge in which the second input is the stricter one for a
\* category and only one input grants the exception
MergeApprovalsStricterWitness ==
    /\ polPc = "merged"
    /\ Strictness(polCand.approvals.shell_exec.mode) >
          Strictness(polBase.approvals.shell_exec.mode)
    /\ polBase.approvals.shell_exec.except_allowlisted
    /\ ~polCand.approvals.shell_exec.except_allowlisted
    /\ polBase.approvals.file_write.mode = "deny"
    /\ polCand.approvals.file_write.mode = "auto"

\* the five category names in lexicographic order
LexicographicCategories ==
    <<"credential_paths", "elevated_privilege", "file_write", "new_domain",
      "shell_exec">>

CompareLexicographic(a, b) ==
    (CHOOSE i \in DOMAIN LexicographicCategories : LexicographicCategories[i] = a)
    - (CHOOSE i \in DOMAIN LexicographicCategories : LexicographicCategories[i] = b)

CompareCategoryOrder(a, b) ==
    (CHOOSE i \in DOMAIN APPROVAL_SORT : APPROVAL_SORT[i] = a)
    - (CHOOSE i \in DOMAIN APPROVAL_SORT : APPROVAL_SORT[i] = b)

\* the path, domain and port lists of a policy are in canonical order:
\* strings lexicographic, ports ascending
PathsDomainsPortsSorted(p) ==
    /\ IsSortedBy(p.allow.paths.read, localeCompare)
    /\ IsSortedBy(p.allow.paths.write, localeCompare)
    /\ IsSortedBy(p.allow.network.domains, localeCompare)
    /\ IsSortedBy(p.deny.paths, localeCompare)
    /\ IsSortedBy(p.deny.network.domains, localeCompare)
    /\ \A i \in 1..(Len(p.allow.network.ports) - 1) :
           p.allow.network.ports[i] <= p.allow.network.ports[i + 1]

\* C12 as stated: every list of the merged policy is in canonical order,
\* every list of strings (defaults.require_approval_for, paths, domains)
\* lexicographic and the ports ascending.
MergedListsLexicographic ==
    polPc = "merged" =>
        /\ IsSortedBy(polMerged.defaults.require_approval_for,
                      CompareLexicographic)
        /\ PathsDomainsPortsSorted(polMerged)

\* C12 amended: in the merged policy defaults.require_approval_for is in the
\* fixed category order shell_exec, new_domain, credential_paths, file_write,
\* elevated_privilege; the path and domain lists are lexicographic and the
\* ports ascending.
MergedListsCanonical ==
    polPc = "merged" =>
        /\ IsSortedBy(polMerged.defaults.require_approval_for,
                      CompareCategoryOrder)
        /\ PathsDomainsPortsSorted(polMerged)

\* C12 witness: a merge that had to reorder the categories
MergedListsCanonicalWitness ==
    /\ polPc = "merged"
    /\ polBase.defaults.require_approval_for = <<"file_write">>
    /\ polCand.defaults.require_approval_for = <<"shell_exec">>
    /\ polMerged.defaults.require_approval_for = <<"shell_exec", "file_write">>

\* the unsupported keys of one object, as field paths
ExtraKeysAt(obj, allowed, path) ==
    {path \o <<k>> : k \in ObjectKeys(obj) \ allowed}

ExtraKeyPaths(doc) ==
    ExtraKeysAt(doc, POLICY_KEYS, <<"policy">>)
    \cup (IF doc.metadata = None THEN {}
          ELSE ExtraKeysAt(doc.metadata[1], METADATA_KEYS, <<"metadata">>))
    \cup ExtraKeysAt(doc.defaults, DEFAULTS_KEYS, <<"defaults">>)
    \cup ExtraKeysAt(doc.allow, ALLOW_KEYS, <<"allow">>)
    \cup ExtraKeysAt(doc.allow.paths, ALLOW_PATH_KEYS, <<"allow.paths">>)
    \cup ExtraKeysAt(doc.allow.network, ALLOW_NETWORK_KEYS, <<"allow.network">>)
    \cup ExtraKeysAt(doc.deny, DENY_KEYS, <<"deny">>)
    \cup ExtraKeysAt(doc.deny.network, DENY_NETWORK_KEYS, <<"deny.network">>)
    \cup ExtraKeysAt(doc.approvals, APPROVALS_KEYS, <<"approvals">>)
    \cup UNION {ExtraKeysAt(doc.approvals[c], APPROVAL_CONFIG_KEYS,
                            <<"approvals." \o c>>) : c \in ApprovalCategories}
    \cup UNION {ExtraKeysAt(doc.allow.commands[i], COMMAND_RULE_KEYS,
                            <<"allow.commands", ToString(i - 1)>>) :
                   i \in DOMAIN doc.allow.commands}
    \cup UNION {ExtraKeysAt(doc.deny.commands[i], DENY_COMMAND_RULE_KEYS,
                            <<"deny.commands", ToString(i - 1)>>) :
                   i \in DOMAIN doc.deny.commands}

BadModePaths(doc) ==
    {<<"approvals." \o c, "mode">> :
        c \in {c \in ApprovalCategories : doc.approvals[c].mode \notin ApprovalModes}}

BadPortPaths(doc) ==
    {<<"allow.network.ports", ToString(i - 1)>> :
        i \in {i \in DOMAIN doc.allow.network.ports :
                  \/ doc.allow.network.ports[i] < 1
                  \/ doc.allow.network.ports[i] > 65535}}

\* every field path at which the document breaks a constraint
ViolatedPaths(doc) ==
    ExtraKeyPaths(doc)
    \cup (IF doc.version # "v1" THEN {<<"policy.version">>} ELSE {})
    \cup (IF doc.defaults.action \notin {"allow", "deny"}
          THEN {<<"defaults.action">>} ELSE {})
    \cup {<<"defaults.require_approval_for", c>> :
            c \in Range(doc.defaults.require_approval_for) \ ApprovalCategories}
    \cup {<<"allow.commands", ToString(i - 1), "cmd">> :
            i \in {i \in DOMAIN doc.allow.commands : doc.allow.commands[i].cmd = ""}}
    \cup {<<"allow.commands", ToString(i - 1), "description">> :
            i \in {i \in DOMAIN doc.allow.commands :
                      /\ doc.allow.commands[i].description # None
                      /\ doc.allow.commands[i].description[1].type # "string"}}
    \cup {<<"deny.commands", ToString(i - 1), "cmd">> :
            i \in {i \in DOMAIN doc.deny.commands : doc.deny.commands[i].cmd = ""}}
    \cup BadPortPaths(doc)
    \cup BadModePaths(doc)

\* the document validatePolicy threw on
RejectedDoc == IF ViolatedPaths(docA) # {} THEN docA ELSE docB

\* C13: when a document violates several constraints at once, the error
\* validatePolicy throws names every violated field path.
ValidationNamesEveryPath ==
    polPc = "rejected" => ViolatedPaths(RejectedDoc) \subseteq Range(polErrors)

\* a document conforms: version v1, every key at every nesting level
\* permitted, defaults.action allow or deny, every approvals mode one of the
\* four, every port from 1 to 65535
Conforms(doc) ==
    /\ doc.version = "v1"
    /\ ExtraKeyPaths(doc) = {}
    /\ doc.defaults.action \in {"allow", "deny"}
    /\ BadModePaths(doc) = {}
    /\ BadPortPaths(doc) = {}

----------------------------------------------------------------------------
(* Scoring engine.  Contributions and subscores are carried in tenths of a *)
(* point (30 * 0.7 = 21.0 is 210; 15 * 0.7 = 10.5 is 105) and the weighted *)
(* sum in thousandths, so that every product of the weight tables is an    *)
(* exact integer.                                                          *)

Severities == {"critical", "high", "medium", "low", "info"}
Confidences == {"high", "medium", "low"}
ScoreCategories == {"shell", "network", "filesystem", "credentials"}

SEVERITY_POINTS(severity) ==
    CASE severity = "critical" -> 30
      [] severity = "high" -> 15
      [] severity = "medium" -> 8
      [] severity = "low" -> 3
      [] severity = "info" -> 1
      [] OTHER -> 0

\* in tenths: 1.0, 0.7, 0.4
CONFIDENCE_WEIGHTS(confidence) ==
    CASE confidence = "high" -> 10
      [] confidence = "medium" -> 7
      [] confidence = "low" -> 4
      [] OTHER -> 0

\* in hundredths: 0.3, 0.25, 0.2, 0.25
CATEGORY_WEIGHTS(axis) ==
    CASE axis = "shell" -> 30
      [] axis = "network" -> 25
      [] axis = "filesystem" -> 20
      [] axis = "credentials" -> 25

\* CATEGORY_MAP[category] ?? ScoreCategory.Shell
CATEGORY_MAP(category) ==
    CASE category = "shell" -> "shell"
      [] category = "obfuscation" -> "shell"
      [] category = "network" -> "network"
      [] category = "supply-chain" -> "network"
      [] category = "filesystem" -> "filesystem"
      [] category = "macos" -> "filesystem"
      [] category = "windows" -> "filesystem"
      [] category = "credentials" -> "credentials"
      [] category = "gha" -> "shell"
      [] OTHER -> "shell"

\* scoreCategoryForFinding without the rule-id override
scoreCategoryForFinding_tableOnly(finding) == CATEGORY_MAP(finding.category)

scoreCategoryForFinding(finding) ==
    IF finding.category # "gha" THEN CATEGORY_MAP(finding.category)
    ELSE IF finding.rule_id = "OG-GHA-001" THEN "credentials"
    ELSE "shell"

\* tenths of a point
contributionForFinding(finding) ==
    SEVERITY_POINTS(finding.severity) * CONFIDENCE_WEIGHTS(finding.confidence)

\* totalScore without the critical floor
totalScore_noFloor(subscores, hasCritical) ==
    LET weighted ==
            subscores.shell * CATEGORY_WEIGHTS("shell")
            + subscores.network * CATEGORY_WEIGHTS("network")
            + subscores.filesystem * CATEGORY_WEIGHTS("filesystem")
            + subscores.credentials * CATEGORY_WEIGHTS("credentials")
    IN  Min((weighted + 500) \div 1000, 100)

\* Math.round(weighted) is floor(weighted + 0.5); weighted is in thousandths
totalScore(subscores, hasCritical) ==
    LET weighted ==
            subscores.shell * CATEGORY_WEIGHTS("shell")
            + subscores.network * CATEGORY_WEIGHTS("network")
            + subscores.filesystem * CATEGORY_WEIGHTS("filesystem")
            + subscores.credentials * CATEGORY_WEIGHTS("credentials")
        scoreValue == Min((weighted + 500) \div 1000, 100)
    IN  IF hasCritical THEN Max(scoreValue, 60) ELSE scoreValue

ZeroSubscores ==
    [shell |-> 0, network |-> 0, filesystem |-> 0, credentials |-> 0]

\* calculateScore with the running subscore replaced, not accumulated
calculateScore_overwrite(fs) ==
    LET loop[i \in 0..Len(fs)] ==
            IF i = 0 THEN [subscores |-> ZeroSubscores, hasCritical |-> FALSE]
            ELSE LET prev == loop[i - 1]
                     category == scoreCategoryForFinding(fs[i])
                 IN  [subscores |->
                        [prev.subscores EXCEPT ![category] =
                            Min(contributionForFinding(fs[i]), 1000)],
                      hasCritical |->
                        prev.hasCritical \/ fs[i].severity = "critical"]
        final == loop[Len(fs)]
    IN  [total |-> totalScore(final.subscores, final.hasCritical),
         subscores |-> final.subscores,
         hasCritical |-> final.hasCritical]

\* calculateScore without the cap on the running subscore
calculateScore_uncapped(fs) ==
    LET loop[i \in 0..Len(fs)] ==
            IF i = 0 THEN [subscores |-> ZeroSubscores, hasCritical |-> FALSE]
            ELSE LET prev == loop[i - 1]
                     category == scoreCategoryForFinding(fs[i])
                 IN  [subscores |->
                        [prev.subscores EXCEPT ![category] =
                            @ + contributionForFinding(fs[i])],
                      hasCritical |->
                        prev.hasCritical \/ fs[i].severity = "critical"]
        final == loop[Len(fs)]
    IN  [total |-> totalScore(final.subscores, final.hasCritical),
         subscores |-> final.subscores,
         hasCritical |-> final.hasCritical]

\* subscores are in tenths, so the cap of 100 is 1000
calculateScore(fs) ==
    LET loop[i \in 0..Len(fs)] ==
            IF i = 0 THEN [subscores |-> ZeroSubscores, hasCritical |-> FALSE]
            ELSE LET prev == loop[i - 1]
                     category == scoreCategoryForFinding(fs[i])
                 IN  [subscores |->
                        [prev.subscores EXCEPT ![category] =
                            Min(@ + contributionForFinding(fs[i]), 1000)],
                      hasCritical |->
                        prev.hasCritical \/ fs[i].severity = "critical"]
        final == loop[Len(fs)]
    IN  [total |-> totalScore(final.subscores, final.hasCritical),
         subscores |-> final.subscores,
         hasCritical |-> final.hasCritical]

----------------------------------------------------------------------------
(* Findings the scorer is run on: an initial list of up to MaxRepeat equal *)
(* findings (enough to carry one axis to its cap), then any findings       *)
(* appended one at a time.                                                 *)

MaxRepeat == 3
MaxAppend == 1

\* category and rule id as rules pair them: the CI workflow rules carry the
\* gha category; one network rule with an OG-GHA id shows that the id alone
\* does not select the axis
CategoryRuleIds ==
    {<<c, "OG-SHELL-001">> :
        c \in {"shell", "obfuscation", "network", "supply-chain", "filesystem",
               "macos", "windows", "credentials", "custom"}}
    \cup {<<"gha", "OG-GHA-001">>, <<"gha", "OG-GHA-003">>,
          <<"network", "OG-GHA-001">>}

ScoredFindings ==
    {[severity |-> s, confidence |-> c, category |-> cr[1], rule_id |-> cr[2]] :
        s \in Severities, c \in Confidences, cr \in CategoryRuleIds}

RepeatedFindings ==
    {[severity |-> "critical", confidence |-> "high", category |-> "shell",
      rule_id |-> "OG-SHELL-001"],
     [severity |-> "high", confidence |-> "medium", category |-> "credentials",
      rule_id |-> "OG-SHELL-001"]}

Repeat(f, k) == [i \in 1..k |-> f]

ScoreIdle ==
    /\ findings = <<>>
    /\ appended = 0
    /\ score = calculateScore(<<>>)

ScoreStart ==
    /\ \E f \in RepeatedFindings, k \in 0..MaxRepeat : findings = Repeat(f, k)
    /\ appended = 0
    /\ score = calculateScore(findings)

\* a scan reports one more finding and the report is scored again
AppendFinding ==
    /\ appended < MaxAppend
    /\ \E f \in ScoredFindings : findings' = Append(findings, f)
    /\ appended' = appended + 1
    /\ score' = calculateScore(findings')
    /\ UNCHANGED <<polVars, scanVars, discVars, loadVars, loopVars, runVars,
                 prVars>>

NextScore == AppendFinding

----------------------------------------------------------------------------
(* Scoring properties                                                      *)

\* the uncapped sum of the contributions mapped to an axis, in tenths
RECURSIVE AxisSum(_, _)
AxisSum(fs, axis) ==
    IF fs = <<>> THEN 0
    ELSE (IF scoreCategoryForFinding(Head(fs)) = axis
          THEN contributionForFinding(Head(fs)) ELSE 0)
         + AxisSum(Tail(fs), axis)

HasCriticalFinding(fs) == \E i \in DOMAIN fs : fs[i].severity = "critical"

\* C5: for every findings list with at least one finding of critical
\* severity, calculateScore returns a total of at least 60.
CriticalFloor ==
    HasCriticalFinding(findings) => score.total >= 60

\* C5 witness: a scored list with a critical finding whose weighted sum alone
\* rounds to less than 60
CriticalFloorWitness ==
    /\ HasCriticalFinding(findings)
    /\ appended = 1
    /\ totalScore(score.subscores, FALSE) < 60
    /\ score.total = 60

\* C6: appending a finding f to a findings list F lowers neither the total
\* nor any of the four subscores of calculateScore.
ScoreMonotone ==
    [][(findings' # findings) =>
        /\ score'.total >= score.total
        /\ \A axis \in ScoreCategories :
              score'.subscores[axis] >= score.subscores[axis]]_vars

\* C6 witness: a finding was appended to a non-empty list whose axis already
\* held a larger contribution, and the axis subscore grew
ScoreMonotoneWitness ==
    /\ appended = 1
    /\ Len(findings) >= 2
    /\ scoreCategoryForFinding(findings[Len(findings)]) =
          scoreCategoryForFinding(findings[1])
    /\ contributionForFinding(findings[Len(findings)]) <
          contributionForFinding(findings[1])
    /\ score.subscores[scoreCategoryForFinding(findings[1])] >
          calculateScore(SubSeq(findings, 1, Len(findings) - 1))
             .subscores[scoreCategoryForFinding(findings[1])]

\* C7: each of the four subscores and the total lies between 0 and 100
\* inclusive, and each subscore equals the smaller of 100 and the sum of the
\* contributions mapped to its axis.
ScoreBounds ==
    /\ score.total >= 0
    /\ score.total <= 100
    /\ \A axis \in ScoreCategories :
          /\ score.subscores[axis] >= 0
          /\ score.subscores[axis] <= 1000
          /\ score.subscores[axis] = Min(1000, AxisSum(findings, axis))

\* C7 witness: the contributions of one axis add up to more than 100 and its
\* subscore is 100
ScoreBoundsWitness ==
    \E axis \in ScoreCategories :
        /\ AxisSum(findings, axis) > 1000
        /\ score.subscores[axis] = 1000
        /\ appended = 1

\* the categories of the fixed category table
TableCategories ==
    {"shell", "obfuscation", "network", "supply-chain", "filesystem", "macos",
     "windows", "credentials", "gha"}

\* the axis the claim gives a finding: the table entry of its category,
\* except that a gha finding goes to credentials when its rule is OG-GHA-001
\* and to shell otherwise; a category absent from the table counts as shell
AxisOfFinding(finding) ==
    IF finding.category = "gha"
    THEN IF finding.rule_id = "OG-GHA-001" THEN "credentials" ELSE "shell"
    ELSE IF finding.category \in TableCategories
    THEN CATEGORY_MAP(finding.category)
    ELSE "shell"

LastFinding == findings[Len(findings)]

\* the score of the list without its last finding
ScoreBeforeLast == calculateScore(SubSeq(findings, 1, Len(findings) - 1))

\* C20 as stated: each finding adds its contribution to exactly one
\* subscore and leaves the other three unchanged; the axis comes from the
\* fixed category table, except that gha-category findings go to
\* credentials when the rule is OG-GHA-001 and to shell otherwise.
FindingAddsToOneAxis ==
    [][(findings' # findings) =>
        LET finding == findings'[Len(findings')]
            axis == AxisOfFinding(finding)
        IN  /\ score'.subscores[axis] =
                   score.subscores[axis] + contributionForFinding(finding)
            /\ \A other \in ScoreCategories \ {axis} :
                   score'.subscores[other] = score.subscores[other]]_vars

\* C20 amended: each finding adds its contribution to exactly one subscore,
\* up to that subscore's cap of 100, and leaves the other three unchanged;
\* the axis comes from the fixed category table (a category absent from the
\* table counts as shell), except that gha-category findings go to
\* credentials when the rule is OG-GHA-001 and to shell otherwise.
FindingAddsToOneAxisCapped ==
    [][(findings' # findings) =>
        LET finding == findings'[Len(findings')]
            axis == AxisOfFinding(finding)
        IN  /\ score'.subscores[axis] =
                   Min(score.subscores[axis] + contributionForFinding(finding),
                       1000)
            /\ \A other \in ScoreCategories \ {axis} :
                   score'.subscores[other] = score.subscores[other]]_vars

\* a gha finding of rule OG-GHA-001 was appended to a list that had raised
\* the shell subscore: credentials grew by the contribution and shell, the
\* table's axis for gha, stayed
FindingAddsToOneAxisCappedWitness ==
    /\ appended = 1
    /\ Len(findings) >= 2
    /\ LastFinding.category = "gha"
    /\ LastFinding.rule_id = "OG-GHA-001"
    /\ contributionForFinding(LastFinding) > 0
    /\ score.subscores.credentials =
           ScoreBeforeLast.subscores.credentials
           + contributionForFinding(LastFinding)
    /\ score.subscores.shell = ScoreBeforeLast.subscores.shell
    /\ score.subscores.shell > 0

----------------------------------------------------------------------------
(* Rule engine.  A string is a sequence of one-character strings; offsets  *)
(* are 0-based as in JavaScript.                                           *)

LF == "\n"
CR == "\r"

Str1(a) == <<a>>
Str3(a, b, c) == <<a, b, c>>

\* String.prototype.toLowerCase on the characters the model uses
LowerChar(c) ==
    CASE c = "X" -> "x"
      [] c = "S" -> "s"
      [] c = "H" -> "h"
      [] c = "A" -> "a"
      [] c = "G" -> "g"
      [] c = "O" -> "o"
      [] c = "Q" -> "q"
      [] c = "R" -> "r"
      [] OTHER -> c

toLowerCase(s) == [i \in DOMAIN s |-> LowerChar(s[i])]

startsWith(s, prefix) ==
    /\ Len(prefix) <= Len(s)
    /\ SubSeq(s, 1, Len(prefix)) = prefix

endsWith(s, suffix) ==
    /\ Len(suffix) <= Len(s)
    /\ SubSeq(s, Len(s) - Len(suffix) + 1, Len(s)) = suffix

\* position (1-based) of the last occurrence of character c in s, 0 if none
LastIndexOfChar(s, c) ==
    IF \E i \in DOMAIN s : s[i] = c
    THEN CHOOSE i \in DOMAIN s : s[i] = c /\ \A j \in DOMAIN s : s[j] = c => j <= i
    ELSE 0

\* path.posix.basename
basename(p) == SubSeq(p, LastIndexOfChar(p, "/") + 1, Len(p))

\* path.posix.extname: from the last dot of the basename, unless the
\* basename has no dot or only a leading one
extname(p) ==
    LET base == basename(p)
        dot == LastIndexOfChar(base, ".")
    IN  IF dot <= 1 THEN <<>> ELSE SubSeq(base, dot, Len(base))

\* source.split(/\r?\n/)
RECURSIVE SplitLines(_)
SplitLines(source) ==
    IF \A i \in DOMAIN source : source[i] # LF THEN <<source>>
    ELSE LET nl == CHOOSE i \in DOMAIN source :
                        source[i] = LF /\ \A j \in 1..(i - 1) : source[j] # LF
             lineEnd == IF nl > 1 /\ source[nl - 1] = CR THEN nl - 2 ELSE nl - 1
         IN  <<SubSeq(source, 1, lineEnd)>>
             \o SplitLines(SubSeq(source, nl + 1, Len(source)))

CONTEXT_LINES == 3

indexToLine(lines, matchIndex) ==
    IF matchIndex <= 0 THEN 1
    ELSE LET \* remaining before looking at line i (1-based)
             remaining[i \in 1..(Len(lines) + 1)] ==
                IF i = 1 THEN matchIndex
                ELSE remaining[i - 1] - (Len(lines[i - 1]) + 1)
             hits == {i \in 1..Len(lines) : remaining[i] <= Len(lines[i])}
         IN  IF hits # {} THEN CHOOSE i \in hits : \A j \in hits : i <= j
             ELSE IF Len(lines) = 0 THEN 1 ELSE Len(lines)

\* lines.join("\n")
RECURSIVE JoinLines(_)
JoinLines(lines) ==
    IF lines = <<>> THEN <<>>
    ELSE IF Len(lines) = 1 THEN lines[1]
    ELSE lines[1] \o <<LF>> \o JoinLines(Tail(lines))

extractEvidence(filePath, source, matchIndex, matchText) ==
    LET lines == SplitLines(source)
        matchLine == indexToLine(lines, matchIndex)
        startLine == Max(1, matchLine - CONTEXT_LINES)
        endLine == Min(Len(lines), matchLine + CONTEXT_LINES)
    IN  [path |-> filePath,
         start_line |-> startLine,
         end_line |-> endLine,
         snippet |-> JoinLines(SubSeq(lines, startLine, endLine)),
         match |-> matchText]

DigitChars == <<"0", "1", "2", "3", "4", "5", "6", "7", "8", "9">>

\* the decimal text of a non-negative integer, as template interpolation
\* writes it
RECURSIVE Decimal(_)
Decimal(n) ==
    IF n < 10 THEN <<DigitChars[n + 1]>>
    ELSE Decimal(n \div 10) \o <<DigitChars[(n % 10) + 1]>>

\* The id is the first 12 hex digits of SHA-256 of the interpolated string.
\* The digest is modelled as injective: an id is the string it is computed
\* from, so two ids are equal exactly when their digest inputs are.
createFindingId(ruleId, relativePath, startLine, matchedText) ==
    ruleId \o <<":">> \o relativePath \o <<":">> \o Decimal(startLine)
    \o <<":">> \o matchedText

\* title, description, remediation and tags are copied from the rule like
\* severity, category and confidence and are left out
createFinding(rule, evidence) ==
    [id |-> createFindingId(rule.id, evidence.path, evidence.start_line,
                            evidence.match),
     rule_id |-> rule.id,
     severity |-> rule.severity,
     category |-> rule.category,
     confidence |-> rule.confidence,
     evidence |-> evidence]

\* A rule pattern is a regular expression without operators: a literal,
\* compiled with flags "gmi".  It matches at 0-based offset i when the
\* content there equals it up to letter case.
MatchesAt(regex, content, i) ==
    /\ i + Len(regex) <= Len(content)
    /\ toLowerCase(SubSeq(content, i + 1, i + Len(regex))) = toLowerCase(regex)

\* regex.exec from lastIndex: the offset of the next match, -1 if none
ExecFrom(regex, content, lastIndex) ==
    LET hits == {i \in lastIndex..Len(content) : MatchesAt(regex, content, i)}
    IN  IF hits = {} THEN -1 ELSE CHOOSE i \in hits : \A j \in hits : i <= j

\* the while loop of scanFile for one pattern: the offsets of the successive
\* matches, each search starting where the previous match ended
RECURSIVE MatchOffsets(_, _, _)
MatchOffsets(regex, content, lastIndex) ==
    LET index == ExecFrom(regex, content, lastIndex)
    IN  IF index < 0 THEN <<>>
        ELSE <<index>> \o MatchOffsets(regex, content, index + Len(regex))

FILE_TYPE_WORKFLOW_PREFIX ==
    <<".", "g", "i", "t", "h", "u", "b", "/",
      "w", "o", "r", "k", "f", "l", "o", "w", "s", "/">>

\* /^\.github\/workflows\/.+\.ya?ml$/i
isGitHubWorkflowFile(relativePath) ==
    LET lower == toLowerCase(relativePath)
    IN  /\ startsWith(lower, FILE_TYPE_WORKFLOW_PREFIX)
        /\ \/ /\ endsWith(lower, <<".", "y", "m", "l">>)
              /\ Len(lower) > Len(FILE_TYPE_WORKFLOW_PREFIX) + 4
           \/ /\ endsWith(lower, <<".", "y", "a", "m", "l">>)
              /\ Len(lower) > Len(FILE_TYPE_WORKFLOW_PREFIX) + 5

isGhaRule(rule) == startsWith(rule.id, <<"O", "G", "-", "G", "H", "A", "-">>)

\* /^dockerfile$/i, /\.dockerfile$/i against the lowered path or basename
isDockerfilePath(lower) ==
    LET name == <<"d", "o", "c", "k", "e", "r", "f", "i", "l", "e">>
    IN  \/ lower = name
        \/ basename(lower) = name
        \/ endsWith(lower, <<".">> \o name)

\* Types by extension from the rule metadata, plus the path-shape types.
\* The mcp-config matchers need a basename of at least eight characters or
\* an mcp/ directory; no path of the model has either.
resolveFileTypes(file, meta) ==
    LET lower == toLowerCase(file.relativePath)
        ext == extname(lower)
    IN  {type \in DOMAIN meta.file_type_extensions :
            \E value \in meta.file_type_extensions[type] :
                toLowerCase(value) = ext}
        \cup (IF isGitHubWorkflowFile(lower) \/ isGitHubWorkflowFile(basename(lower))
              THEN {"yaml-workflow"} ELSE {})
        \cup (IF isDockerfilePath(lower) THEN {"dockerfile"} ELSE {})

ruleAppliesToFile(rule, file, meta) ==
    \E type \in rule.scope.file_types : type \in resolveFileTypes(file, meta)

\* the findings of one pattern of one rule in one file, in match order
PatternFindings(rule, regex, file) ==
    LET offsets == MatchOffsets(regex, file.content, 0)
    IN  [k \in DOMAIN offsets |->
            createFinding(rule,
                extractEvidence(file.relativePath, file.content, offsets[k],
                    SubSeq(file.content, offsets[k] + 1,
                           offsets[k] + Len(regex))))]

RECURSIVE Flatten(_)
Flatten(ss) == IF ss = <<>> THEN <<>> ELSE Head(ss) \o Flatten(Tail(ss))

TextWriteAll ==
    <<"w", "r", "i", "t", "e", "-", "a", "l", "l">>

TextWrite == <<"w", "r", "i", "t", "e">>

TextPermissionsWriteAll ==
    <<"p", "e", "r", "m", "i", "s", "s", "i", "o", "n", "s", ":", " ", "w",
      "r", "i", "t", "e", "-", "a", "l", "l">>

TextContentsWrite ==
    <<"c", "o", "n", "t", "e", "n", "t", "s", ":", " ", "w", "r", "i", "t",
      "e">>

TextPullRequestsWrite ==
    <<"p", "u", "l", "l", "-", "r", "e", "q", "u", "e", "s", "t", "s", ":",
      " ", "w", "r", "i", "t", "e">>

TextPullRequestTarget ==
    <<"p", "u", "l", "l", "_", "r", "e", "q", "u", "e", "s", "t", "_", "t",
      "a", "r", "g", "e", "t">>

TextIssueComment ==
    <<"i", "s", "s", "u", "e", "_", "c", "o", "m", "m", "e", "n", "t">>

TextSelfHosted ==
    <<"s", "e", "l", "f", "-", "h", "o", "s", "t", "e", "d">>

TextSelfHostedCapitals ==
    <<"S", "e", "l", "f", "-", "H", "o", "s", "t", "e", "d">>

TextSelfHostedX ==
    <<"s", "e", "l", "f", "-", "h", "o", "s", "t", "e", "d", "-", "x">>

TextPush == <<"p", "u", "s", "h">>

TextOnColon == <<"o", "n", ":", " ">>

\* A value that yaml.load returns: a string, null, an array, an object (its
\* entries in document order, keys unique) or undefined for an empty
\* document.  Every value carries all four fields so that values of
\* different kinds can be compared.
YUndefined ==
    [type |-> "undefined", text |-> <<>>, items |-> <<>>, entries |-> <<>>]

YNull == [type |-> "null", text |-> <<>>, items |-> <<>>, entries |-> <<>>]

YString(text) ==
    [type |-> "string", text |-> text, items |-> <<>>, entries |-> <<>>]

YArray(items) ==
    [type |-> "array", text |-> <<>>, items |-> items, entries |-> <<>>]

YObject(members) ==
    [type |-> "object", text |-> <<>>, items |-> <<>>, entries |-> members]

\* The workflow documents of the model: the file content and what yaml.load
\* (js-yaml) makes of it.

\* the workflow-level grant
DocTopWriteAll ==
    [content |->
        <<"p", "e", "r", "m", "i", "s", "s", "i", "o", "n", "s", ":", " ",
          "w", "r", "i", "t", "e", "-", "a", "l", "l">>,
     parsed |->
        [throws |-> FALSE,
         value |->
            YObject(<<
                [key |-> "permissions",
                 value |->
                    YString(TextWriteAll)]>>)]]

\* the same grant with two spaces after the colon
DocTopWriteAllSpaced ==
    [content |->
        <<"p", "e", "r", "m", "i", "s", "s", "i", "o", "n", "s", ":", " ",
          " ", "w", "r", "i", "t", "e", "-", "a", "l", "l">>,
     parsed |->
        [throws |-> FALSE,
         value |->
            YObject(<<
                [key |-> "permissions",
                 value |->
                    YString(TextWriteAll)]>>)]]

\* the grant commented out in a workflow
DocCommentedWriteAll ==
    [content |->
        <<"o", "n", ":", " ", "p", "u", "s", "h", LF, "#", " ", "p", "e",
          "r", "m", "i", "s", "s", "i", "o", "n", "s", ":", " ", "w", "r",
          "i", "t", "e", "-", "a", "l", "l">>,
     parsed |->
        [throws |-> FALSE,
         value |->
            YObject(<<
                [key |-> "on",
                 value |->
                    YString(TextPush)]>>)]]

\* a file that is one comment: an empty document
DocOnlyComment ==
    [content |->
        <<"#", " ", "p", "e", "r", "m", "i", "s", "s", "i", "o", "n", "s",
          ":", " ", "w", "r", "i", "t", "e", "-", "a", "l", "l">>,
     parsed |->
        [throws |-> FALSE, value |-> YUndefined]]

\* the job-level grant
DocJobWriteAll ==
    [content |->
        <<"j", "o", "b", "s", ":", LF, " ", " ", "b", ":", LF, " ", " ",
          " ", " ", "p", "e", "r", "m", "i", "s", "s", "i", "o", "n", "s",
          ":", " ", "w", "r", "i", "t", "e", "-", "a", "l", "l">>,
     parsed |->
        [throws |-> FALSE,
         value |->
            YObject(<<
                [key |-> "jobs",
                 value |->
                    YObject(<<
                        [key |-> "b",
                         value |->
                            YObject(<<
                                [key |-> "permissions",
                                 value |->
                                    YString(TextWriteAll)]>>)]>>)]>>)]]

\* a document that is a list
DocList ==
    [content |->
        <<"-", " ", "p", "e", "r", "m", "i", "s", "s", "i", "o", "n", "s",
          ":", " ", "w", "r", "i", "t", "e", "-", "a", "l", "l">>,
     parsed |->
        [throws |-> FALSE,
         value |->
            YArray(<<
                YObject(<<
                    [key |-> "permissions",
                     value |->
                        YString(TextWriteAll)]>>)>>)]]

\* an unclosed flow sequence: yaml.load throws
DocUnclosed ==
    [content |->
        <<"p", "e", "r", "m", "i", "s", "s", "i", "o", "n", "s", ":", " ",
          "w", "r", "i", "t", "e", "-", "a", "l", "l", LF, "o", "n", ":",
          " ", "[">>,
     parsed |->
        [throws |-> TRUE, value |-> YUndefined]]

\* the sole scalar trigger
DocOnScalar ==
    [content |->
        <<"o", "n", ":", " ", "p", "u", "l", "l", "_", "r", "e", "q", "u",
          "e", "s", "t", "_", "t", "a", "r", "g", "e", "t">>,
     parsed |->
        [throws |-> FALSE,
         value |->
            YObject(<<
                [key |-> "on",
                 value |->
                    YString(TextPullRequestTarget)]>>)]]

\* a member of a trigger list
DocOnList ==
    [content |->
        <<"o", "n", ":", " ", "[", "p", "u", "s", "h", ",", " ", "i", "s",
          "s", "u", "e", "_", "c", "o", "m", "m", "e", "n", "t", "]">>,
     parsed |->
        [throws |-> FALSE,
         value |->
            YObject(<<
                [key |-> "on",
                 value |->
                    YArray(<<
                        YString(TextPush),
                        YString(TextIssueComment)>>)]>>)]]

\* a key of a trigger mapping
DocOnMapping ==
    [content |->
        <<"o", "n", ":", LF, " ", " ", "i", "s", "s", "u", "e", "_", "c",
          "o", "m", "m", "e", "n", "t", ":">>,
     parsed |->
        [throws |-> FALSE,
         value |->
            YObject(<<
                [key |-> "on",
                 value |->
                    YObject(<<
                        [key |-> "issue_comment",
                         value |->
                            YNull]>>)]>>)]]

\* a scalar runner label
DocRunsOnScalar ==
    [content |->
        <<"j", "o", "b", "s", ":", LF, " ", " ", "b", ":", LF, " ", " ",
          " ", " ", "r", "u", "n", "s", "-", "o", "n", ":", " ", "s", "e",
          "l", "f", "-", "h", "o", "s", "t", "e", "d">>,
     parsed |->
        [throws |-> FALSE,
         value |->
            YObject(<<
                [key |-> "jobs",
                 value |->
                    YObject(<<
                        [key |-> "b",
                         value |->
                            YObject(<<
                                [key |-> "runs-on",
                                 value |->
                                    YString(TextSelfHosted)]>>)]>>)]>>)]]

\* the label in another letter case
DocRunsOnUpper ==
    [content |->
        <<"j", "o", "b", "s", ":", LF, " ", " ", "b", ":", LF, " ", " ",
          " ", " ", "r", "u", "n", "s", "-", "o", "n", ":", " ", "S", "e",
          "l", "f", "-", "H", "o", "s", "t", "e", "d">>,
     parsed |->
        [throws |-> FALSE,
         value |->
            YObject(<<
                [key |-> "jobs",
                 value |->
                    YObject(<<
                        [key |-> "b",
                         value |->
                            YObject(<<
                                [key |-> "runs-on",
                                 value |->
                                    YString(
                                        TextSelfHostedCapitals)]>>)]>>)]>>)]]

\* a member of a label list
DocRunsOnList ==
    [content |->
        <<"j", "o", "b", "s", ":", LF, " ", " ", "b", ":", LF, " ", " ",
          " ", " ", "r", "u", "n", "s", "-", "o", "n", ":", " ", "[", "x",
          ",", " ", "s", "e", "l", "f", "-", "h", "o", "s", "t", "e", "d",
          "]">>,
     parsed |->
        [throws |-> FALSE,
         value |->
            YObject(<<
                [key |-> "jobs",
                 value |->
                    YObject(<<
                        [key |-> "b",
                         value |->
                            YObject(<<
                                [key |-> "runs-on",
                                 value |->
                                    YArray(<<
                                        YString(<<"x">>),
                                        YString(TextSelfHosted)>>)]>>)]>>)]>>)]]

\* a label that contains the text
DocRunsOnLonger ==
    [content |->
        <<"j", "o", "b", "s", ":", LF, " ", " ", "b", ":", LF, " ", " ",
          " ", " ", "r", "u", "n", "s", "-", "o", "n", ":", " ", "s", "e",
          "l", "f", "-", "h", "o", "s", "t", "e", "d", "-", "x">>,
     parsed |->
        [throws |-> FALSE,
         value |->
            YObject(<<
                [key |-> "jobs",
                 value |->
                    YObject(<<
                        [key |-> "b",
                         value |->
                            YObject(<<
                                [key |-> "runs-on",
                                 value |->
                                    YString(TextSelfHostedX)]>>)]>>)]>>)]]

YamlDocuments ==
    {DocTopWriteAll,
     DocTopWriteAllSpaced,
     DocCommentedWriteAll,
     DocOnlyComment,
     DocJobWriteAll,
     DocList,
     DocUnclosed,
     DocOnScalar,
     DocOnList,
     DocOnMapping,
     DocRunsOnScalar,
     DocRunsOnUpper,
     DocRunsOnList,
     DocRunsOnLonger}

\* yaml.load(content): the parse of a document of the model; any other
\* content is not a workflow file of the model and is taken to throw
yamlLoad(content) ==
    IF \E d \in YamlDocuments : d.content = content
    THEN (CHOOSE d \in YamlDocuments : d.content = content).parsed
    ELSE [throws |-> TRUE, value |-> YUndefined]

isRecord(value) == value.type = "object"

\* the property of an object under a key, undefined when it has none
Prop(object, key) ==
    LET hits == {i \in DOMAIN object.entries : object.entries[i].key = key}
    IN  IF hits = {} THEN YUndefined
        ELSE object.entries[CHOOSE i \in hits : TRUE].value

\* Object.hasOwn
hasOwn(object, key) ==
    \E i \in DOMAIN object.entries : object.entries[i].key = key

\* value === text, for a string literal text
IsString(value, text) == value.type = "string" /\ value.text = text

\* String.prototype.indexOf: the 0-based offset of the first occurrence of
\* text in content, letter case included, -1 if there is none
indexOf(content, text) ==
    LET hits == {i \in 0..(Len(content) - Len(text)) :
                    SubSeq(content, i + 1, i + Len(text)) = text}
    IN  IF hits = {} THEN -1 ELSE CHOOSE i \in hits : \A j \in hits : i <= j

\* Object.entries(doc.jobs), [] when jobs is not an object
getJobs(doc) ==
    LET jobs == Prop(doc, "jobs")
    IN  IF ~isRecord(jobs) THEN <<>> ELSE jobs.entries

findBroadPermissions(doc) ==
    LET jobs == getJobs(doc)
        ofJob(job) ==
            IF ~isRecord(job) THEN <<>>
            ELSE LET permissions == Prop(job, "permissions")
                 IN  IF IsString(permissions, TextWriteAll)
                     THEN <<TextPermissionsWriteAll>>
                     ELSE IF /\ isRecord(permissions)
                             /\ IsString(Prop(permissions, "contents"),
                                         TextWrite)
                             /\ IsString(Prop(permissions, "pull-requests"),
                                         TextWrite)
                     THEN <<TextContentsWrite, TextPullRequestsWrite>>
                     ELSE <<>>
    IN  (IF IsString(Prop(doc, "permissions"), TextWriteAll)
         THEN <<TextPermissionsWriteAll>> ELSE <<>>)
        \o Flatten([i \in DOMAIN jobs |-> ofJob(jobs[i].value)])

IsDangerousTrigger(value) ==
    IsString(value, TextPullRequestTarget) \/ IsString(value, TextIssueComment)

findDangerousTriggers(doc) ==
    LET on == Prop(doc, "on")
    IN  IF on.type = "string"
        THEN IF IsDangerousTrigger(on) THEN <<TextOnColon \o on.text>> ELSE <<>>
        ELSE IF on.type = "array"
        THEN Flatten([i \in DOMAIN on.items |->
                        IF IsDangerousTrigger(on.items[i])
                        THEN <<TextOnColon \o on.items[i].text>> ELSE <<>>])
        ELSE IF ~isRecord(on) THEN <<>>
        ELSE (IF hasOwn(on, "pull_request_target")
              THEN <<TextPullRequestTarget>> ELSE <<>>)
             \o (IF hasOwn(on, "issue_comment")
                 THEN <<TextIssueComment>> ELSE <<>>)

findSelfHostedRunners(doc) ==
    LET jobs == getJobs(doc)
        isSelfHosted(value) ==
            value.type = "string" /\ toLowerCase(value.text) = TextSelfHosted
        ofJob(job) ==
            IF ~isRecord(job) THEN <<>>
            ELSE LET runsOn == Prop(job, "runs-on")
                 IN  IF isSelfHosted(runsOn) THEN <<TextSelfHosted>>
                     ELSE IF /\ runsOn.type = "array"
                             /\ \E i \in DOMAIN runsOn.items :
                                    isSelfHosted(runsOn.items[i])
                     THEN <<TextSelfHosted>>
                     ELSE <<>>
    IN  Flatten([i \in DOMAIN jobs |-> ofJob(jobs[i].value)])

RuleIdGha001 ==
    <<"O", "G", "-", "G", "H", "A", "-", "0", "0", "1">>

RuleIdGha003 ==
    <<"O", "G", "-", "G", "H", "A", "-", "0", "0", "3">>

RuleIdGha005 ==
    <<"O", "G", "-", "G", "H", "A", "-", "0", "0", "5">>

\* The switch on the rule id.  The checks of OG-GHA-002 (unpinned uses) and
\* OG-GHA-004 (expression injection) are not modelled: no catalog of the
\* model holds a rule with either id, and no document of the model has a
\* uses, steps or with key.
findGhaMatches(ruleId, doc) ==
    CASE ruleId = RuleIdGha001 -> findBroadPermissions(doc)
      [] ruleId = RuleIdGha003 -> findDangerousTriggers(doc)
      [] ruleId = RuleIdGha005 -> findSelfHostedRunners(doc)
      [] OTHER -> <<>>

\* scanFile calls this for a workflow file and a rule whose id starts with
\* OG-GHA-.  It returns null (None) when yaml.load throws or yields something
\* that is not an object; a matched text that indexOf does not find in the
\* content is passed over.
scanGhaRuleStructured(rule, file) ==
    LET loaded == yamlLoad(file.content)
    IN  IF loaded.throws THEN None
        ELSE IF ~isRecord(loaded.value) THEN None
        ELSE LET matches == findGhaMatches(rule.id, loaded.value)
                 found == FilterSeq(matches,
                              LAMBDA text : indexOf(file.content, text) >= 0)
             IN  Some([k \in DOMAIN found |->
                        createFinding(rule,
                            extractEvidence(file.relativePath, file.content,
                                indexOf(file.content, found[k]), found[k]))])

\* the text-pattern loop of scanFile for one rule
RuleTextFindings(rule, file) ==
    Flatten([p \in DOMAIN rule.patterns |->
                PatternFindings(rule, rule.patterns[p].regex, file)])

\* scanFile without the continue after the structural findings: the text
\* patterns run as well
scanFile_noContinue(file, rules, meta) ==
    Flatten([r \in DOMAIN rules |->
        IF ~ruleAppliesToFile(rules[r], file, meta) THEN <<>>
        ELSE IF /\ isGitHubWorkflowFile(file.relativePath)
                /\ isGhaRule(rules[r])
                /\ scanGhaRuleStructured(rules[r], file) # None
             THEN scanGhaRuleStructured(rules[r], file)[1]
                  \o RuleTextFindings(rules[r], file)
        ELSE RuleTextFindings(rules[r], file)])

scanFile(file, rules, meta) ==
    Flatten([r \in DOMAIN rules |->
        IF ~ruleAppliesToFile(rules[r], file, meta) THEN <<>>
        ELSE IF /\ isGitHubWorkflowFile(file.relativePath)
                /\ isGhaRule(rules[r])
                /\ scanGhaRuleStructured(rules[r], file) # None
             THEN scanGhaRuleStructured(rules[r], file)[1]
        ELSE RuleTextFindings(rules[r], file)])

\* localeCompare on finding ids.  Ids are hex digests; which of two distinct
\* digests sorts first is fixed by the digest alone, and the model takes the
\* lexicographic order of the digest inputs for it.
CharOrder ==
    <<LF, CR, " ", "_", "-", ",", ":", "!", "?", ".", "*", "/", "[", "]", "#",
      "0", "1", "2", "3", "4", "5", "6", "7", "8", "9",
      "a", "A", "b", "B", "c", "C", "d", "D", "e", "f", "g", "G", "h", "H",
      "i", "j", "k", "l", "m", "n", "o", "O", "p", "q", "Q", "r", "R", "s",
      "S", "t", "T", "u", "v", "w", "x", "X", "y", "z">>

CharRank(c) == CHOOSE i \in 1..Len(CharOrder) : CharOrder[i] = c

RECURSIVE compareIds(_, _)
compareIds(a, b) ==
    IF a = <<>> /\ b = <<>> THEN 0
    ELSE IF a = <<>> THEN -1
    ELSE IF b = <<>> THEN 1
    ELSE IF Head(a) # Head(b) THEN Sign(CharRank(Head(a)) - CharRank(Head(b)))
    ELSE compareIds(Tail(a), Tail(b))

\* scanTarget without the seenIds check
scanTarget_noSeenIds(files, rules, meta) ==
    StableSort(Flatten([f \in DOMAIN files |-> scanFile(files[f], rules, meta)]),
               LAMBDA a, b : compareIds(a.id, b.id))

scanTarget(files, rules, meta) ==
    LET all == Flatten([f \in DOMAIN files |-> scanFile(files[f], rules, meta)])
        kept == DedupeByKey(all, LAMBDA finding : finding.id)
    IN  StableSort(kept, LAMBDA a, b : compareIds(a.id, b.id))

----------------------------------------------------------------------------
(* Files and rules the scanner is run on                                   *)

MaxFiles == 2

RuleMetaValue ==
    [rule_format_version |-> "1",
     file_type_extensions |->
        [shell |-> {<<".", "s">>}, text |-> {<<".", "t">>}]]

\* "a.s" holds the text b.s:1:x; the file named "a.s:1:b.s" holds x; "c.S"
\* mixes LF and CRLF line ends, "e.s" has CRLF line ends only and "f.s" holds
\* x on each of its two lines
ScanFileUniverse ==
    {[relativePath |-> <<"a", ".", "s">>,
      content |-> <<"b", ".", "s", ":", "1", ":", "x">>],
     [relativePath |-> <<"a", ".", "s", ":", "1", ":", "b", ".", "s">>,
      content |-> <<"x">>],
     [relativePath |-> <<"c", ".", "S">>,
      content |-> <<"x", LF, "X", CR, LF, LF, LF, LF, "1", "x">>],
     [relativePath |-> <<"d", ".", "t">>,
      content |-> <<"x", "1">>],
     [relativePath |-> <<"e", ".", "s">>,
      content |-> <<CR, LF, CR, LF, CR, LF, "x", CR, LF>>],
     [relativePath |-> <<"f", ".", "s">>,
      content |-> <<"x", LF, "x">>]}

RuleR ==
    [id |-> <<"R">>, severity |-> "high", confidence |-> "high",
     category |-> "shell", scope |-> [file_types |-> {"shell"}],
     patterns |-> <<[regex |-> <<"x">>],
                    [regex |-> <<"b", ".", "s", ":", "1", ":", "x">>]>>]

RuleQ ==
    [id |-> <<"Q">>, severity |-> "low", confidence |-> "medium",
     category |-> "network", scope |-> [file_types |-> {"shell", "text"}],
     patterns |-> <<[regex |-> <<"1">>]>>]

RuleCatalogs == {<<RuleR>>, <<RuleQ>>, <<RuleQ, RuleR>>}

DistinctSeqsUpTo(S, n) == {s \in SeqsUpTo(S, n) : NoRepeats(s)}

WorkflowPath ==
    <<".", "g", "i", "t", "h", "u", "b", "/", "w", "o", "r", "k", "f", "l",
      "o", "w", "s", "/", "w", ".", "y", "m", "l">>

\* one workflow file per document of the model
WorkflowFileUniverse ==
    {[relativePath |-> WorkflowPath, content |-> d.content] :
        d \in YamlDocuments}

\* the text patterns of the three rules are literals here
RuleGha001 ==
    [id |-> RuleIdGha001, severity |-> "high", confidence |-> "high",
     category |-> "gha", scope |-> [file_types |-> {"yaml-workflow"}],
     patterns |-> <<[regex |-> TextWriteAll]>>]

RuleGha003 ==
    [id |-> RuleIdGha003, severity |-> "high", confidence |-> "medium",
     category |-> "gha", scope |-> [file_types |-> {"yaml-workflow"}],
     patterns |-> <<[regex |-> TextPullRequestTarget],
                    [regex |-> TextIssueComment]>>]

RuleGha005 ==
    [id |-> RuleIdGha005, severity |-> "high", confidence |-> "medium",
     category |-> "gha", scope |-> [file_types |-> {"yaml-workflow"}],
     patterns |-> <<[regex |-> TextSelfHosted]>>]

GhaRuleCatalogs ==
    {<<RuleGha001>>, <<RuleGha003>>, <<RuleGha005>>,
     <<RuleGha001, RuleGha003, RuleGha005>>}

\* a scan of up to MaxFiles files with the text rules, or of one workflow
\* file with the workflow rules
ScanStart ==
    /\ \/ /\ scanFiles \in DistinctSeqsUpTo(ScanFileUniverse, MaxFiles)
          /\ scanRules \in RuleCatalogs
       \/ /\ scanFiles \in {<<file>> : file \in WorkflowFileUniverse}
          /\ scanRules \in GhaRuleCatalogs
    /\ scanPc = "ready"
    /\ scanOut = <<>>
    /\ scanPrevOut = <<>>

\* scanTarget(files, rules, meta)
Scan ==
    /\ scanPc = "ready"
    /\ scanOut' = scanTarget(scanFiles, scanRules, RuleMetaValue)
    /\ scanPc' = "scanned"
    /\ UNCHANGED <<scanFiles, scanRules, scanPrevOut>>
    /\ UNCHANGED <<polVars, scoreVars, discVars, loadVars, loopVars, runVars,
                 prVars>>

\* the same files are enumerated in another order and scanned again
ScanReordered ==
    /\ scanPc \in {"scanned", "rescanned"}
    /\ \E i \in 1..(Len(scanFiles) - 1) :
          scanFiles' = [scanFiles EXCEPT ![i] = scanFiles[i + 1],
                                         ![i + 1] = scanFiles[i]]
    /\ scanPrevOut' = scanOut
    /\ scanOut' = scanTarget(scanFiles', scanRules, RuleMetaValue)
    /\ scanPc' = "rescanned"
    /\ UNCHANGED scanRules
    /\ UNCHANGED <<polVars, scoreVars, discVars, loadVars, loopVars, runVars,
                 prVars>>

NextScan == Scan \/ ScanReordered

----------------------------------------------------------------------------
(* Rule engine properties                                                  *)

\* C3: scanTarget returns the same finding list (same findings, same order)
\* for every permutation of the input file list, given the same file
\* contents, rules and meta.
ScanOrderIndependent ==
    scanPc = "rescanned" => scanOut = scanPrevOut

\* C4: the list returned by scanTarget never contains two findings with the
\* same id and is in ascending id order.
ScanOutSortedUnique ==
    scanPc \in {"scanned", "rescanned"} =>
        \A i \in 1..(Len(scanOut) - 1) :
            compareIds(scanOut[i].id, scanOut[i + 1].id) < 0

AllFileFindings ==
    Flatten([f \in DOMAIN scanFiles |->
                scanFile(scanFiles[f], scanRules, RuleMetaValue)])

\* C4 witness: a scan whose files yield the same id more than once, returned
\* as a shorter list of at least two findings
ScanOutSortedUniqueWitness ==
    /\ scanPc = "scanned"
    /\ Len(scanOut) >= 2
    /\ Len(AllFileFindings) > Len(scanOut)
    /\ AllFileFindings # scanOut

\* the number of newline characters among the first n characters of source
NewlinesBefore(source, n) ==
    Cardinality({i \in 1..Min(n, Len(source)) : source[i] = LF})

\* C15: for every match of every pattern in every file content, with LF or
\* CRLF line ends, the evidence has start_line = max(1, L - 3) and
\* end_line = min(number of lines, L + 3), where L is 1 plus the number of
\* newline characters before the match offset.
EvidenceWindowByNewlines ==
    scanPc = "scanned" =>
        \A f \in DOMAIN scanFiles, r \in DOMAIN scanRules :
            ruleAppliesToFile(scanRules[r], scanFiles[f], RuleMetaValue) =>
                \A p \in DOMAIN scanRules[r].patterns :
                    LET content == scanFiles[f].content
                        regex == scanRules[r].patterns[p].regex
                        offsets == MatchOffsets(regex, content, 0)
                        found == PatternFindings(scanRules[r], regex,
                                                 scanFiles[f])
                        lineCount == 1 + NewlinesBefore(content, Len(content))
                    IN  \A k \in DOMAIN offsets :
                            LET L == 1 + NewlinesBefore(content, offsets[k])
                            IN  /\ found[k].evidence.start_line
                                       = Max(1, L - CONTEXT_LINES)
                                /\ found[k].evidence.end_line
                                       = Min(lineCount, L + CONTEXT_LINES)

\* a scan of one workflow file has finished
WorkflowScanned ==
    /\ scanPc = "scanned"
    /\ Len(scanFiles) = 1
    /\ isGitHubWorkflowFile(scanFiles[1].relativePath)

\* the findings of a rule in the result of the scan
FindingsOfRule(rule) ==
    {scanOut[i] : i \in {j \in DOMAIN scanOut : scanOut[j].rule_id = rule.id}}

\* the OG-GHA-* rules of the catalog that apply to the scanned file
WorkflowRules ==
    {scanRules[r] : r \in {q \in DOMAIN scanRules :
        /\ isGhaRule(scanRules[q])
        /\ ruleAppliesToFile(scanRules[q], scanFiles[1], RuleMetaValue)}}

\* the findings of the structural check of a rule on a file: none when there
\* is no parsed object to check
StructuralFindings(rule, file) ==
    IF scanGhaRuleStructured(rule, file) = None THEN <<>>
    ELSE scanGhaRuleStructured(rule, file)[1]

ParsedWorkflow == yamlLoad(scanFiles[1].content).value

ParsedToMapping ==
    /\ ~yamlLoad(scanFiles[1].content).throws
    /\ isRecord(ParsedWorkflow)

\* every occurrence of text in content follows a "#" on its own line, and
\* there is at least one
OnlyInComments(content, text) ==
    LET occurrences == {i \in 0..(Len(content) - Len(text)) :
                           SubSeq(content, i + 1, i + Len(text)) = text}
    IN  /\ occurrences # {}
        /\ \A i \in occurrences :
               \E j \in 1..i : /\ content[j] = "#"
                               /\ \A k \in j..i : content[k] # LF

HasWriteAllPermissions(doc) ==
    \/ IsString(Prop(doc, "permissions"), TextWriteAll)
    \/ \E i \in DOMAIN getJobs(doc) :
           /\ isRecord(getJobs(doc)[i].value)
           /\ IsString(Prop(getJobs(doc)[i].value, "permissions"), TextWriteAll)

\* C17: a workflow file whose parsed top-level or job-level permissions
\* value is write-all yields at least one finding of OG-GHA-001, and a
\* workflow in which write-all appears only inside a comment yields none.
BroadPermissionsFlagged ==
    (WorkflowScanned /\ RuleGha001 \in WorkflowRules) =>
        /\ ((ParsedToMapping /\ HasWriteAllPermissions(ParsedWorkflow))
               => FindingsOfRule(RuleGha001) # {})
        /\ (OnlyInComments(scanFiles[1].content, TextWriteAll)
               => FindingsOfRule(RuleGha001) = {})

\* pull_request_target or issue_comment is the sole scalar trigger, a member
\* of the trigger list or a key of the trigger mapping
HasDangerousTrigger(doc) ==
    LET on == Prop(doc, "on")
    IN  \/ IsDangerousTrigger(on)
        \/ /\ on.type = "array"
           /\ \E i \in DOMAIN on.items : IsDangerousTrigger(on.items[i])
        \/ /\ isRecord(on)
           /\ hasOwn(on, "pull_request_target") \/ hasOwn(on, "issue_comment")

\* C18: a workflow yields a finding of OG-GHA-003 whenever
\* pull_request_target or issue_comment is a trigger in any of the three
\* forms: the sole scalar trigger, a member of a trigger list, or a key of a
\* trigger mapping.
DangerousTriggersFlagged ==
    (/\ WorkflowScanned
     /\ RuleGha003 \in WorkflowRules
     /\ ParsedToMapping
     /\ HasDangerousTrigger(ParsedWorkflow))
        => FindingsOfRule(RuleGha003) # {}

\* the label contains the text self-hosted in some letter case
NamesSelfHosted(value) ==
    /\ value.type = "string"
    /\ indexOf(toLowerCase(value.text), TextSelfHosted) >= 0

HasSelfHostedRunner(doc) ==
    \E i \in DOMAIN getJobs(doc) :
        LET job == getJobs(doc)[i].value
            runsOn == Prop(job, "runs-on")
        IN  /\ isRecord(job)
            /\ \/ NamesSelfHosted(runsOn)
               \/ /\ runsOn.type = "array"
                  /\ \E k \in DOMAIN runsOn.items :
                         NamesSelfHosted(runsOn.items[k])

\* C19: a workflow yields a finding of OG-GHA-005 whenever some job's
\* runs-on value, as a scalar or as any member of a list, contains the text
\* self-hosted in any letter case.
SelfHostedFlagged ==
    (/\ WorkflowScanned
     /\ RuleGha005 \in WorkflowRules
     /\ ParsedToMapping
     /\ HasSelfHostedRunner(ParsedWorkflow))
        => FindingsOfRule(RuleGha005) # {}

----------------------------------------------------------------------------
(* Ignore patterns (gitignore syntax).  A pattern line, a name and a       *)
(* root-relative path are strings (sequences of characters).               *)

\* String.prototype.localeCompare on names and relative paths: character by
\* character in collation order, a proper prefix first
RECURSIVE compareStrings(_, _)
compareStrings(a, b) ==
    IF a = <<>> /\ b = <<>> THEN 0
    ELSE IF a = <<>> THEN -1
    ELSE IF b = <<>> THEN 1
    ELSE IF Head(a) = Head(b) THEN compareStrings(Tail(a), Tail(b))
    ELSE Sign(CharRank(Head(a)) - CharRank(Head(b)))

\* one element of the regular expression source that globToRegexSource
\* writes: a literal character, [^/]* for "*", .* for "**", [^/] for "?"
RECURSIVE globToRegexSource(_)
globToRegexSource(pattern) ==
    IF pattern = <<>> THEN <<>>
    ELSE IF Head(pattern) = "*"
         THEN IF Len(pattern) >= 2 /\ pattern[2] = "*"
              THEN <<[kind |-> "anything", char |-> "*"]>>
                   \o globToRegexSource(SubSeq(pattern, 3, Len(pattern)))
              ELSE <<[kind |-> "nonslashes", char |-> "*"]>>
                   \o globToRegexSource(Tail(pattern))
    ELSE IF Head(pattern) = "?"
         THEN <<[kind |-> "nonslash", char |-> "?"]>>
              \o globToRegexSource(Tail(pattern))
    ELSE <<[kind |-> "literal", char |-> Head(pattern)]>>
         \o globToRegexSource(Tail(pattern))

\* the compiled expression: prefix ^ (anchored) or (?:^|.*/), the source,
\* suffix $ or (?:/.*)?$ (directoryOnly); null for an empty pattern
buildPatternRegex(pattern, anchored, directoryOnly) ==
    IF pattern = <<>> THEN None
    ELSE Some([anchored |-> anchored,
               directoryOnly |-> directoryOnly,
               source |-> globToRegexSource(pattern)])

parseIgnorePattern(raw) ==
    IF raw = <<>> \/ raw = <<"/">> THEN None
    ELSE LET negated == Head(raw) = "!"
             trimmed == IF negated THEN Tail(raw) ELSE raw
         IN  IF trimmed = <<>> THEN None
             ELSE LET anchored == Head(trimmed) = "/"
                      normalized == IF anchored THEN Tail(trimmed) ELSE trimmed
                      directoryOnly == endsWith(normalized, <<"/">>)
                      pattern == IF directoryOnly
                                 THEN SubSeq(normalized, 1, Len(normalized) - 1)
                                 ELSE normalized
                  IN  Some([raw |-> raw,
                            negated |-> negated,
                            anchored |-> anchored,
                            directoryOnly |-> directoryOnly,
                            hasSlash |-> \E i \in DOMAIN pattern : pattern[i] = "/",
                            pattern |-> pattern,
                            regex |-> buildPatternRegex(pattern, anchored,
                                                        directoryOnly)])

\* the regular expression source matched against s up to the suffix
RECURSIVE SourceMatches(_, _, _)
SourceMatches(source, s, directoryOnly) ==
    IF source = <<>>
    THEN s = <<>> \/ (directoryOnly /\ Head(s) = "/")
    ELSE LET e == Head(source)
             rest == Tail(source)
         IN  CASE e.kind = "literal" ->
                    /\ s # <<>>
                    /\ Head(s) = e.char
                    /\ SourceMatches(rest, Tail(s), directoryOnly)
               [] e.kind = "nonslash" ->
                    /\ s # <<>>
                    /\ Head(s) # "/"
                    /\ SourceMatches(rest, Tail(s), directoryOnly)
               [] e.kind = "nonslashes" ->
                    \E k \in 0..Len(s) :
                        /\ \A i \in 1..k : s[i] # "/"
                        /\ SourceMatches(rest, SubSeq(s, k + 1, Len(s)),
                                         directoryOnly)
               [] e.kind = "anything" ->
                    \E k \in 0..Len(s) :
                        SourceMatches(rest, SubSeq(s, k + 1, Len(s)),
                                      directoryOnly)

\* regex.test(s): the source starts at the beginning of s or, when the
\* pattern is not anchored, right after any slash
RegexTest(regex, s) ==
    LET starts == IF regex.anchored THEN {0}
                  ELSE {0} \cup {i \in DOMAIN s : s[i] = "/"}
    IN  \E st \in starts :
            SourceMatches(regex.source, SubSeq(s, st + 1, Len(s)),
                          regex.directoryOnly)

matchesPattern(relativePath, pattern) ==
    IF pattern.regex = None THEN FALSE
    ELSE IF ~pattern.hasSlash /\ ~pattern.anchored
         THEN IF pattern.directoryOnly
              THEN basename(relativePath) = pattern.pattern
              ELSE RegexTest(pattern.regex[1], basename(relativePath))
    ELSE RegexTest(pattern.regex[1], relativePath)

\* shouldIgnore with the loop left at the first matching pattern
shouldIgnore_firstMatch(relativePath, patterns, isDirectory) ==
    LET hits == {i \in DOMAIN patterns :
                    /\ ~(patterns[i].directoryOnly /\ ~isDirectory)
                    /\ matchesPattern(relativePath, patterns[i])}
    IN  /\ hits # {}
        /\ ~patterns[CHOOSE i \in hits : \A j \in hits : i <= j].negated

shouldIgnore(relativePath, patterns, isDirectory) ==
    LET ignored[i \in 0..Len(patterns)] ==
            IF i = 0 THEN FALSE
            ELSE IF patterns[i].directoryOnly /\ ~isDirectory THEN ignored[i - 1]
            ELSE IF ~matchesPattern(relativePath, patterns[i]) THEN ignored[i - 1]
            ELSE ~patterns[i].negated
    IN  ignored[Len(patterns)]

DEFAULT_MAX_FILE_SIZE_BYTES == 1000000
DEFAULT_IGNORE_PATTERNS == << <<".", "g", "i", "t", "/">> >>

\* The built-in patterns, then the lines of the ignore file that are neither
\* empty nor comments.  lines are the lines of <root>/.gitignore; the second
\* ignore file, <root>/.openguardignore, does not exist and reads as null.
loadIgnorePatterns(lines) ==
    LET all == DEFAULT_IGNORE_PATTERNS
               \o FilterSeq(lines, LAMBDA l : l # <<>> /\ Head(l) # "#")
        parsed == [i \in DOMAIN all |-> parseIgnorePattern(all[i])]
        kept == FilterSeq(parsed, LAMBDA p : p # None)
    IN  [i \in DOMAIN kept |-> kept[i][1]]

----------------------------------------------------------------------------
(* File discovery.  A location is an absolute path: the sequence of names  *)
(* from the file-system root.  The file system is a set of nodes           *)
(* [path, kind, size, resolved]: kind is "dir", "file" or "symlink"; a     *)
(* symlink carries what fs.realpath makes of it, None when it cannot be    *)
(* resolved (broken link or loop), else the location of a real directory   *)
(* or file.                                                                *)

\* the real root: path.resolve and fs.realpath of the scanned directory
RootPath == << <<"r">> >>

NodeAt(fs, p) == CHOOSE n \in fs : n.path = p

Exists(fs, p) == \E n \in fs : n.path = p

\* fs.readdir(dir, {withFileTypes: true}): the names of the nodes directly
\* beneath dir
ChildNames(fs, dir) ==
    {n.path[Len(n.path)] : n \in {c \in fs : /\ Len(c.path) = Len(dir) + 1
                                              /\ SubSeq(c.path, 1, Len(dir)) = dir}}

\* dirents.sort((a, b) => a.name.localeCompare(b.name))
SortedDirents(fs, dir) ==
    StableSort(SetToSeq(ChildNames(fs, dir)), LAMBDA a, b : compareStrings(a, b))

RECURSIVE JoinSlash(_)
JoinSlash(names) ==
    IF names = <<>> THEN <<>>
    ELSE IF Len(names) = 1 THEN names[1]
    ELSE names[1] \o <<"/">> \o JoinSlash(Tail(names))

\* path.relative(from, to) for two absolute normalised paths, as the list
\* of its segments: ".." for each name of from after the common prefix,
\* then the rest of to
PathRelative(from, to) ==
    LET common == {k \in 0..Min(Len(from), Len(to)) :
                      SubSeq(from, 1, k) = SubSeq(to, 1, k)}
        k == CHOOSE k \in common : \A j \in common : j <= k
    IN  [i \in 1..(Len(from) - k) |-> <<".", ".">>]
        \o SubSeq(to, k + 1, Len(to))

toRelativePosix(rootPath, targetPath) ==
    JoinSlash(PathRelative(rootPath, targetPath))

\* isWithinRoot accepting every target
isWithinRoot_always(rootPath, targetPath) ==
    Len(rootPath) >= 0 /\ Len(targetPath) >= 0

\* path.isAbsolute(relative) is false for every relative path on POSIX
isWithinRoot(rootPath, targetPath) ==
    ~startsWith(JoinSlash(PathRelative(rootPath, targetPath)), <<".", ".">>)

\* fs.realpath of a symlink, null when it throws
safeRealpath(fs, p) == NodeAt(fs, p).resolved

\* addFileEntry: the entries after the call.  The category that
\* classifyFile adds to an entry is left out.
addFileEntry(rootPath, absolutePath, sizeBytes, patterns, es) ==
    LET relativePath == toRelativePosix(rootPath, absolutePath)
    IN  IF sizeBytes > DEFAULT_MAX_FILE_SIZE_BYTES THEN es
        ELSE IF shouldIgnore(relativePath, patterns, FALSE) THEN es
        ELSE Append(es, [absolutePath |-> absolutePath,
                         relativePath |-> relativePath,
                         sizeBytes |-> sizeBytes])

\* Entry into walkDirectory(rootPath, currentPath): the call stack and the
\* visited set after the realpath check and readdir.  currentPath is always
\* a real location (the real root, a directory dirent of a real directory,
\* or a resolved symlink), so fs.realpath(currentPath) is currentPath.
\* walkDirectory without the visitedDirs check
walkDirectory_noVisited(fs, currentPath, stack, visited) ==
    [stack |-> Append(stack, [dir |-> currentPath,
                              dirents |-> SortedDirents(fs, currentPath)]),
     visited |-> visited \cup {currentPath}]

walkDirectory(fs, currentPath, stack, visited) ==
    IF currentPath \in visited
    THEN [stack |-> stack, visited |-> visited]
    ELSE [stack |-> Append(stack, [dir |-> currentPath,
                                   dirents |-> SortedDirents(fs, currentPath)]),
          visited |-> visited \cup {currentPath}]

----------------------------------------------------------------------------
(* The directory trees and ignore files discovery is run on.               *)

MaxIgnoreLines == 2

DirNode(p) == [path |-> p, kind |-> "dir", size |-> 0, resolved |-> None]
FileNode(p, size) == [path |-> p, kind |-> "file", size |-> size, resolved |-> None]
LinkNode(p, resolved) ==
    [path |-> p, kind |-> "symlink", size |-> 0, resolved |-> resolved]

InRoot(names) == RootPath \o names

NameGitignore == <<".", "g", "i", "t", "i", "g", "n", "o", "r", "e">>
NameGit == <<".", "g", "i", "t">>
NameDotDotX == <<".", ".", "x">>
NameSecret == <<"s">>
NameHidden == <<"h">>
NameKeep == <<"k">>
NameLink == <<"l">>
NameLateLink == <<"z">>

\* <root>/.gitignore, <root>/k, <root>/s/h
BaseNodes ==
    { DirNode(RootPath),
      FileNode(InRoot(<<NameGitignore>>), 10),
      FileNode(InRoot(<<NameKeep>>), 10),
      DirNode(InRoot(<<NameSecret>>)),
      FileNode(InRoot(<<NameSecret, NameHidden>>), 10) }

\* a file over the size ceiling
TreePlain ==
    BaseNodes \cup {FileNode(InRoot(<< <<"m">> >>), DEFAULT_MAX_FILE_SIZE_BYTES + 1)}

\* l -> <root>/s, read before s
TreeDirLink ==
    BaseNodes \cup {LinkNode(InRoot(<<NameLink>>), Some(InRoot(<<NameSecret>>)))}

\* z -> <root>/s, read after s
TreeDirLinkLate ==
    BaseNodes \cup {LinkNode(InRoot(<<NameLateLink>>), Some(InRoot(<<NameSecret>>)))}

\* l -> <root>/s/h
TreeFileLink ==
    BaseNodes
    \cup {LinkNode(InRoot(<<NameLink>>), Some(InRoot(<<NameSecret, NameHidden>>)))}

\* b is broken, l -> /o (a directory outside the root), z -> /o/p
TreeEscapes ==
    BaseNodes
    \cup { DirNode(<< <<"o">> >>),
           FileNode(<< <<"o">>, <<"p">> >>, 10),
           LinkNode(InRoot(<< <<"b">> >>), None),
           LinkNode(InRoot(<<NameLink>>), Some(<< <<"o">> >>)),
           LinkNode(InRoot(<<NameLateLink>>), Some(<< <<"o">>, <<"p">> >>)) }

\* <root>/.git/c and l -> <root>/.git
TreeGit ==
    BaseNodes
    \cup { DirNode(InRoot(<<NameGit>>)),
           FileNode(InRoot(<<NameGit, <<"c">> >>), 10),
           LinkNode(InRoot(<<NameLink>>), Some(InRoot(<<NameGit>>))) }

\* <root>/s/u -> <root>
TreeCycle ==
    BaseNodes \cup {LinkNode(InRoot(<<NameSecret, <<"u">> >>), Some(RootPath))}

\* a directory whose name starts with two dots, and l -> that directory
TreeDotDot ==
    BaseNodes
    \cup { DirNode(InRoot(<<NameDotDotX>>)),
           FileNode(InRoot(<<NameDotDotX, NameHidden>>), 10),
           LinkNode(InRoot(<<NameLink>>), Some(InRoot(<<NameDotDotX>>))) }

\* <root>/n/s/h: a directory s with a file h one level further down
TreeNested ==
    BaseNodes
    \cup { DirNode(InRoot(<< <<"n">> >>)),
           DirNode(InRoot(<< <<"n">>, NameSecret >>)),
           FileNode(InRoot(<< <<"n">>, NameSecret, NameHidden >>), 10) }

TreeUniverse ==
    { TreePlain, TreeDirLink, TreeDirLinkLate, TreeFileLink, TreeEscapes,
      TreeGit, TreeCycle, TreeDotDot, TreeNested }

\* the lines  s/   h   !h   /k   s/*
IgnoreLineUniverse ==
    { <<"s", "/">>, <<"h">>, <<"!", "h">>, <<"/", "k">>, <<"s", "/", "*">> }

----------------------------------------------------------------------------
(* discoverFiles as a walk: one step per directory entry.                  *)

DiscoveryStart ==
    /\ tree \in TreeUniverse
    /\ ignoreLines \in SeqsUpTo(IgnoreLineUniverse, MaxIgnoreLines)
    /\ dPc = "start"
    /\ dStack = <<>>
    /\ visitedDirs = {}
    /\ entries = <<>>
    /\ skippedLinks = {}

ignorePatterns == loadIgnorePatterns(ignoreLines)

\* the innermost walkDirectory call and the dirent its loop is at
Top == dStack[Len(dStack)]
AbsolutePath == Top.dir \o <<Head(Top.dirents)>>
Dirent == NodeAt(tree, AbsolutePath)
AtDirent == dPc = "walking" /\ dStack # <<>> /\ Top.dirents # <<>>
DirentIgnored ==
    shouldIgnore(toRelativePosix(RootPath, AbsolutePath), ignorePatterns,
                 Dirent.kind = "dir")
NextDirent == [dStack EXCEPT ![Len(dStack)].dirents = Tail(@)]

\* discoverFiles up to the first walkDirectory call
StartWalk ==
    /\ dPc = "start"
    /\ LET w == walkDirectory(tree, RootPath, <<>>, {})
       IN  /\ dStack' = w.stack
           /\ visitedDirs' = w.visited
    /\ dPc' = "walking"
    /\ UNCHANGED <<tree, ignoreLines, entries, skippedLinks>>
    /\ UNCHANGED <<polVars, scoreVars, scanVars, loadVars, loopVars, runVars,
                 prVars>>

\* if (shouldIgnore(...)) continue
StepIgnored ==
    /\ AtDirent
    /\ DirentIgnored
    /\ dStack' = NextDirent
    /\ UNCHANGED <<tree, ignoreLines, dPc, visitedDirs, entries, skippedLinks>>
    /\ UNCHANGED <<polVars, scoreVars, scanVars, loadVars, loopVars, runVars,
                 prVars>>

\* dirent.isSymbolicLink()
StepSymlink ==
    /\ AtDirent
    /\ ~DirentIgnored
    /\ Dirent.kind = "symlink"
    /\ LET resolved == safeRealpath(tree, AbsolutePath)
       IN  IF resolved = None \/ ~isWithinRoot(RootPath, resolved[1])
           THEN /\ dStack' = NextDirent
                /\ skippedLinks' = skippedLinks \cup {AbsolutePath}
                /\ UNCHANGED <<visitedDirs, entries>>
           ELSE LET stat == NodeAt(tree, resolved[1])
                IN  IF stat.kind = "dir"
                    THEN LET w == walkDirectory(tree, resolved[1], NextDirent,
                                                visitedDirs)
                         IN  /\ dStack' = w.stack
                             /\ visitedDirs' = w.visited
                             /\ UNCHANGED <<entries, skippedLinks>>
                    ELSE /\ dStack' = NextDirent
                         /\ entries' = addFileEntry(RootPath, resolved[1],
                                                    stat.size, ignorePatterns,
                                                    entries)
                         /\ UNCHANGED <<visitedDirs, skippedLinks>>
    /\ UNCHANGED <<tree, ignoreLines, dPc>>
    /\ UNCHANGED <<polVars, scoreVars, scanVars, loadVars, loopVars, runVars,
                 prVars>>

\* dirent.isDirectory()
StepDirectory ==
    /\ AtDirent
    /\ ~DirentIgnored
    /\ Dirent.kind = "dir"
    /\ LET w == walkDirectory(tree, AbsolutePath, NextDirent, visitedDirs)
       IN  /\ dStack' = w.stack
           /\ visitedDirs' = w.visited
    /\ UNCHANGED <<tree, ignoreLines, dPc, entries, skippedLinks>>
    /\ UNCHANGED <<polVars, scoreVars, scanVars, loadVars, loopVars, runVars,
                 prVars>>

\* dirent.isFile()
StepFile ==
    /\ AtDirent
    /\ ~DirentIgnored
    /\ Dirent.kind = "file"
    /\ dStack' = NextDirent
    /\ entries' = addFileEntry(RootPath, AbsolutePath, Dirent.size,
                               ignorePatterns, entries)
    /\ UNCHANGED <<tree, ignoreLines, dPc, visitedDirs, skippedLinks>>
    /\ UNCHANGED <<polVars, scoreVars, scanVars, loadVars, loopVars, runVars,
                 prVars>>

\* the loop of a walkDirectory call runs out and the call returns
ReturnFromDirectory ==
    /\ dPc = "walking"
    /\ dStack # <<>>
    /\ Top.dirents = <<>>
    /\ dStack' = SubSeq(dStack, 1, Len(dStack) - 1)
    /\ UNCHANGED <<tree, ignoreLines, dPc, visitedDirs, entries, skippedLinks>>
    /\ UNCHANGED <<polVars, scoreVars, scanVars, loadVars, loopVars, runVars,
                 prVars>>

\* the outermost call has returned: sort the entries and return them
FinishWalk ==
    /\ dPc = "walking"
    /\ dStack = <<>>
    /\ entries' = StableSort(entries,
                     LAMBDA a, b : compareStrings(a.relativePath, b.relativePath))
    /\ dPc' = "done"
    /\ UNCHANGED <<tree, ignoreLines, dStack, visitedDirs, skippedLinks>>
    /\ UNCHANGED <<polVars, scoreVars, scanVars, loadVars, loopVars, runVars,
                 prVars>>

NextDiscovery ==
    \/ StartWalk
    \/ StepIgnored
    \/ StepSymlink
    \/ StepDirectory
    \/ StepFile
    \/ ReturnFromDirectory
    \/ FinishWalk

----------------------------------------------------------------------------
(* Properties of discovery.                                                *)

InsideRoot(p) ==
    /\ Len(p) > Len(RootPath)
    /\ SubSeq(p, 1, Len(RootPath)) = RootPath

\* the directories strictly between the root and p
AncestorDirs(p) == {SubSeq(p, 1, k) : k \in (Len(RootPath) + 1)..(Len(p) - 1)}

RelativeOf(p) == toRelativePosix(RootPath, p)

Emitted(p) == \E i \in DOMAIN entries : entries[i].relativePath = RelativeOf(p)

\* rule i of the loaded rules matches the path p itself; a directory-only
\* rule matches directories only
RuleMatches(i, p, isDirectory) ==
    /\ ~(ignorePatterns[i].directoryOnly /\ ~isDirectory)
    /\ matchesPattern(RelativeOf(p), ignorePatterns[i])

LastOf(hits) == CHOOSE i \in hits : \A j \in hits : j <= i

ExcludedByLastMatch(p, isDirectory) ==
    LET hits == {i \in DOMAIN ignorePatterns : RuleMatches(i, p, isDirectory)}
    IN  hits # {} /\ ~ignorePatterns[LastOf(hits)].negated

\* rule i matches p or a directory above p
RuleCovers(i, p) ==
    \/ RuleMatches(i, p, FALSE)
    \/ \E a \in AncestorDirs(p) : RuleMatches(i, a, TRUE)

ExcludedByLastCovering(p) ==
    LET hits == {i \in DOMAIN ignorePatterns : RuleCovers(i, p)}
    IN  hits # {} /\ ~ignorePatterns[LastOf(hits)].negated

\* the regular files under the root that the size ceiling lets through
RegularFiles ==
    {n \in tree : /\ n.kind = "file"
                  /\ InsideRoot(n.path)
                  /\ n.size <= DEFAULT_MAX_FILE_SIZE_BYTES}

NoSymlinks == \A n \in tree : n.kind # "symlink"

\* C8 as stated: a file is left out of the result exactly when the last
\* rule in load order that matches it (itself or through a directory above
\* it) is not negated, so a later negated rule brings back a file that an
\* earlier rule excluded.  Stated for trees without symlinks.
IgnoreLastCoveringRuleWins ==
    (dPc = "done" /\ NoSymlinks) =>
        \A n \in RegularFiles :
            ~Emitted(n.path) <=> ExcludedByLastCovering(n.path)

\* C8 amended: a file all of whose directories up to the root are walked
\* (none is excluded by its own last matching rule) is left out of the
\* result exactly when the last rule in load order that matches the file's
\* own path is not negated; a later negated rule brings such a file back.
IgnoreLastMatchWins ==
    dPc = "done" =>
        \A n \in RegularFiles :
            (\A a \in AncestorDirs(n.path) : ~ExcludedByLastMatch(a, TRUE))
            => (~Emitted(n.path) <=> ExcludedByLastMatch(n.path, FALSE))

\* a walked file that an earlier rule excludes and a later negated rule
\* re-includes is in the result
IgnoreLastMatchWinsWitness ==
    /\ dPc = "done"
    /\ \E n \in RegularFiles :
        /\ \A a \in AncestorDirs(n.path) : ~ExcludedByLastMatch(a, TRUE)
        /\ Emitted(n.path)
        /\ \E i, j \in DOMAIN ignorePatterns :
            /\ i < j
            /\ RuleMatches(i, n.path, FALSE) /\ ~ignorePatterns[i].negated
            /\ RuleMatches(j, n.path, FALSE) /\ ignorePatterns[j].negated

\* C9: when the last rule matching a directory is a directory-only rule
\* that is not negated, the result has no entry whose relativePath lies
\* beneath that directory.
DirOnlyRuleHidesSubtree ==
    dPc = "done" =>
        \A d \in {n \in tree : n.kind = "dir" /\ InsideRoot(n.path)} :
            LET hits == {i \in DOMAIN ignorePatterns :
                            RuleMatches(i, d.path, TRUE)}
            IN  (/\ hits # {}
                 /\ ignorePatterns[LastOf(hits)].directoryOnly
                 /\ ~ignorePatterns[LastOf(hits)].negated)
                => \A i \in DOMAIN entries :
                       ~startsWith(entries[i].relativePath,
                                   RelativeOf(d.path) \o <<"/">>)

\* the symlinks whose target cannot be resolved or lies outside the root
EscapingLinks ==
    {n \in tree : /\ n.kind = "symlink"
                  /\ \/ n.resolved = None
                     \/ ~startsWith(n.resolved[1], RootPath)}

\* C10: every entry's absolutePath is the location of a real file under the
\* real root (no symlink on the way), and no entry lies at or beneath a
\* symlink whose target cannot be resolved or is outside the root, nor at
\* or beneath that target.
EntriesInsideRoot ==
    \A i \in DOMAIN entries :
        LET p == entries[i].absolutePath
        IN  /\ InsideRoot(p)
            /\ Exists(tree, p)
            /\ NodeAt(tree, p).kind = "file"
            /\ \A a \in AncestorDirs(p) :
                   Exists(tree, a) /\ NodeAt(tree, a).kind = "dir"
            /\ entries[i].relativePath = JoinSlash(SubSeq(p, Len(RootPath) + 1,
                                                          Len(p)))
            /\ \A l \in EscapingLinks :
                   /\ ~startsWith(p, l.path)
                   /\ l.resolved # None => ~startsWith(p, l.resolved[1])

\* the walk has passed over a broken symlink and a symlink leading outside
\* the root, and has finished with entries
EntriesInsideRootWitness ==
    /\ dPc = "done"
    /\ entries # <<>>
    /\ \E l \in EscapingLinks : l.path \in skippedLinks /\ l.resolved = None
    /\ \E l \in EscapingLinks : l.path \in skippedLinks /\ l.resolved # None

\* the glob of a pattern matches the whole of s (for a directory-only
\* pattern: s or a path beneath it), starting at its first character
WholePathMatch(pattern, s) ==
    /\ pattern.regex # None
    /\ SourceMatches(pattern.regex[1].source, s, pattern.directoryOnly)

\* the match the claim gives a pattern on a root-relative path
ClaimedMatch(pattern, relativePath) ==
    IF ~pattern.anchored /\ ~pattern.hasSlash
    THEN matchesPattern(basename(relativePath), pattern)
    ELSE WholePathMatch(pattern, relativePath)

\* C21: an ignore pattern with no leading slash and no inner slash is
\* matched against the basename of a path at any depth; every other pattern
\* must match the entire root-relative path, not only a trailing part of it.
PatternMatchesWholePath ==
    dPc = "done" =>
        \A i \in DOMAIN ignorePatterns :
            \A n \in {m \in tree : InsideRoot(m.path)} :
                matchesPattern(RelativeOf(n.path), ignorePatterns[i])
                    <=> ClaimedMatch(ignorePatterns[i], RelativeOf(n.path))

\* C28: discoverFiles emits each file at most once: no two entries of the
\* result have the same relativePath, for any directory tree, including
\* files that are also reachable through a symlink inside the root.
EntriesDistinct ==
    dPc = "done" =>
        \A i, j \in DOMAIN entries :
            i # j => entries[i].relativePath # entries[j].relativePath

\* C30: discoverFiles terminates on every finite directory tree, including
\* trees whose symlinks form cycles, and lists the contents of each real
\* directory at most once: a directory is read only when it is not yet in
\* the visited set, and it is in the set from then on.
DiscoveryTerminates ==
    /\ <>(dPc = "done")
    /\ [][/\ visitedDirs \subseteq visitedDirs'
          /\ Len(dStack') > Len(dStack) =>
                /\ dStack'[Len(dStack')].dir \notin visitedDirs
                /\ dStack'[Len(dStack')].dir \in visitedDirs']_vars

\* a finished walk that passed a symlink leading back to a directory above
\* it, the target already listed
DiscoveryTerminatesWitness ==
    /\ dPc = "done"
    /\ ignoreLines = <<>>
    /\ entries # <<>>
    /\ \E l \in tree :
        /\ l.kind = "symlink"
        /\ l.resolved # None
        /\ startsWith(l.path, l.resolved[1])
        /\ l.resolved[1] \in visitedDirs
        /\ SubSeq(l.path, 1, Len(l.path) - 1) \in visitedDirs

\* C24: after mergePolicy, no command name in the merged deny.commands
\* appears as the cmd of any entry of the merged allow.commands, whatever
\* the arguments of either entry.
DeniedCmdNotAllowed ==
    polPc = "merged" =>
        \A a \in Range(polMerged.allow.commands),
           d \in Range(polMerged.deny.commands) : a.cmd # d.cmd

\* the findings of the result that come from rule and file
FindingsOfRuleInFile(rule, file) ==
    {k \in DOMAIN scanOut :
        /\ scanOut[k].rule_id = rule.id
        /\ scanOut[k].evidence.path = file.relativePath}

\* C27: each non-overlapping match of a text rule's pattern in a file
\* appears as its own finding in scanTarget's result: the result holds as
\* many findings of a rule in a file as the rule's patterns have matches
\* there, so two matches at different offsets are two findings.
EachMatchOwnFinding ==
    scanPc = "scanned" =>
        \A f \in DOMAIN scanFiles, r \in DOMAIN scanRules :
            (/\ ~isGitHubWorkflowFile(scanFiles[f].relativePath)
             /\ ruleAppliesToFile(scanRules[r], scanFiles[f], RuleMetaValue))
            => Cardinality(FindingsOfRuleInFile(scanRules[r], scanFiles[f]))
                 = Len(RuleTextFindings(scanRules[r], scanFiles[f]))

----------------------------------------------------------------------------
(* Rule catalog loader.  A rule directory is its _meta.yaml and its rule   *)
(* files in readdir order; a rule file is what yaml.load returns for it.   *)
(* Directory entries that are not files or not named *.yaml are skipped by *)
(* loadRules and are left out of the directories of the model, and every   *)
(* rule file of the model parses to an object.  A rule is a record of      *)
(* optional fields, None for a key the file does not have.                 *)

\* JavaScript truthiness of an optional string: absent and "" are falsy
Truthy(v) == v # None /\ v[1] # ""

\* the same for a string kept as a sequence of characters
TruthyChars(v) == v # None /\ v[1] # <<>>

validateRule(rule) ==
    IF ~TruthyChars(rule.id) \/ ~Truthy(rule.title) \/ ~Truthy(rule.description)
    THEN Some("Rule missing required fields")
    ELSE IF rule.scope = None \/ rule.scope[1].file_types = None
    THEN Some("Rule scope missing file_types")
    ELSE IF rule.patterns = None \/ rule.patterns[1] = <<>>
    THEN Some("Rule patterns missing")
    ELSE IF \E i \in DOMAIN rule.patterns[1] :
                \/ ~TruthyChars(rule.patterns[1][i].regex)
                \/ ~Truthy(rule.patterns[1][i].description)
    THEN Some("Rule pattern missing regex/description")
    ELSE None

\* loadMeta: the meta document must be an object with rule_format_version
\* and file_type_extensions; None stands for a document that is not
loadMeta(meta) ==
    IF meta = None THEN [error |-> Some("Invalid rules meta format"),
                         value |-> None]
    ELSE [error |-> None, value |-> meta]

compareRuleIds(a, b) == compareStrings(a.id[1], b.id[1])

\* the rules of every file in order, validated one by one: the first
\* invalid rule throws; then sorted by id
loadRules(rulesDir) ==
    LET meta == loadMeta(rulesDir.meta)
        all == Flatten([f \in DOMAIN rulesDir.files |->
                    IF rulesDir.files[f].rules = None THEN <<>>
                    ELSE rulesDir.files[f].rules[1]])
        bad == {i \in DOMAIN all : validateRule(all[i]) # None}
    IN  IF meta.error # None
        THEN [error |-> meta.error, rules |-> <<>>, meta |-> None]
        ELSE IF bad # {}
        THEN [error |-> validateRule(all[CHOOSE i \in bad :
                                            \A j \in bad : i <= j]),
              rules |-> <<>>, meta |-> None]
        ELSE [error |-> None,
              rules |-> StableSort(all, compareRuleIds),
              meta |-> meta.value]

\* Map.set for every base rule, then for every override rule: an id keeps
\* the position of its first insertion and maps to the rule set last
MapOfRules(all) ==
    LET first == DedupeByKey(all, LAMBDA r : r.id)
    IN  [k \in DOMAIN first |->
            all[CHOOSE i \in DOMAIN all :
                    /\ all[i].id = first[k].id
                    /\ \A j \in DOMAIN all : all[j].id = first[k].id => j <= i]]

\* mergeRules where a rule of the base catalog is kept when the override
\* has the same id
mergeRules_baseWins(baseRules, overrideRules) ==
    StableSort(DedupeByKey(baseRules \o overrideRules, LAMBDA r : r.id),
               compareRuleIds)

mergeRules(baseRules, overrideRules) ==
    StableSort(MapOfRules(baseRules \o overrideRules), compareRuleIds)

\* {...base, ...override, file_type_extensions: {...base.f, ...override.f}}
mergeMeta(base, override) ==
    [rule_format_version |-> override.rule_format_version,
     file_type_extensions |->
        [t \in DOMAIN base.file_type_extensions
                 \cup DOMAIN override.file_type_extensions |->
            IF t \in DOMAIN override.file_type_extensions
            THEN override.file_type_extensions[t]
            ELSE base.file_type_extensions[t]]]

loadRulesWithOverrides(options) ==
    LET base == loadRules(options.baseDir)
    IN  IF base.error # None \/ options.overrideDir = None THEN base
        ELSE LET override == loadRules(options.overrideDir[1])
             IN  IF override.error # None THEN override
                 ELSE [error |-> None,
                       rules |-> mergeRules(base.rules, override.rules),
                       meta |-> Some(mergeMeta(base.meta[1],
                                               override.meta[1]))]

----------------------------------------------------------------------------
(* Rule directories the loader is run on                                   *)

MaxRuleFiles == 2
MaxOverrideFiles == 1

TextPattern(regex) == [regex |-> Some(regex), description |-> Some("p")]

RuleDocA ==
    [id |-> Some(<<"A">>), title |-> Some("base"), description |-> Some("d"),
     severity |-> Some("high"), confidence |-> Some("high"),
     category |-> Some("shell"),
     scope |-> Some([file_types |-> Some(<<"shell">>)]),
     remediation |-> Some("fix"),
     patterns |-> Some(<<TextPattern(<<"x">>)>>)]

\* another definition of the rule A
RuleDocARedefined ==
    [RuleDocA EXCEPT !.title = Some("override"), !.severity = Some("low")]

RuleDocB == [RuleDocA EXCEPT !.id = Some(<<"B">>)]

\* the pattern x* matches the empty string
RuleDocStar ==
    [RuleDocA EXCEPT !.id = Some(<<"S">>),
                     !.patterns = Some(<<TextPattern(<<"x", "*">>)>>)]

\* the pattern 1x* matches a 1 and the x's after it
RuleDocOneStar ==
    [RuleDocA EXCEPT !.id = Some(<<"T">>),
                     !.patterns = Some(<<TextPattern(<<"1", "x", "*">>)>>)]

RuleDocNoId == [RuleDocA EXCEPT !.id = None]
RuleDocNoDescription == [RuleDocA EXCEPT !.description = Some("")]
RuleDocNoSeverity == [RuleDocA EXCEPT !.id = Some(<<"C">>), !.severity = None]
RuleDocNoRemediation ==
    [RuleDocA EXCEPT !.id = Some(<<"D">>), !.remediation = None]
RuleDocNoFileTypes == [RuleDocA EXCEPT !.scope = Some([file_types |-> None])]
RuleDocEmptyPatterns == [RuleDocA EXCEPT !.patterns = Some(<<>>)]
RuleDocNoRegex ==
    [RuleDocA EXCEPT !.patterns =
        Some(<<[regex |-> None, description |-> Some("p")]>>)]

RuleDocUniverse ==
    { RuleDocA, RuleDocARedefined, RuleDocB, RuleDocStar, RuleDocOneStar,
      RuleDocNoId, RuleDocNoDescription, RuleDocNoSeverity,
      RuleDocNoRemediation, RuleDocNoFileTypes, RuleDocEmptyPatterns,
      RuleDocNoRegex }

\* one file per rule, and a file without the key "rules"
RuleFileUniverse ==
    {[rules |-> Some(<<rule>>)] :
        rule \in RuleDocUniverse \ {RuleDocOneStar, RuleDocNoRegex}}
    \cup {[rules |-> None]}

RuleMetaOverride ==
    [rule_format_version |-> "2",
     file_type_extensions |-> [text |-> {<<".", "m">>}]]

RuleDirs(metas, n) ==
    {[meta |-> meta, files |-> files] :
        meta \in metas, files \in SeqsUpTo(RuleFileUniverse, n)}

LoadIdle ==
    /\ catBase = [meta |-> None, files |-> <<>>]
    /\ catOverride = None
    /\ loadPc = "idle"
    /\ loadedRules = None
    /\ loadError = None

LoadStart ==
    /\ catBase \in RuleDirs({None, Some(RuleMetaValue)}, MaxRuleFiles)
    /\ catOverride \in {None}
        \cup {Some(dir) : dir \in RuleDirs({None, Some(RuleMetaOverride)},
                                           MaxOverrideFiles)}
    /\ loadPc = "start"
    /\ loadedRules = None
    /\ loadError = None

LoadOptions == [baseDir |-> catBase, overrideDir |-> catOverride]

\* loadRulesWithOverrides returns
LoadAccept ==
    /\ loadPc = "start"
    /\ loadRulesWithOverrides(LoadOptions).error = None
    /\ loadedRules' = Some([rules |-> loadRulesWithOverrides(LoadOptions).rules,
                       meta |-> loadRulesWithOverrides(LoadOptions).meta[1]])
    /\ loadPc' = "loaded"
    /\ UNCHANGED <<catBase, catOverride, loadError>>
    /\ UNCHANGED <<polVars, scoreVars, scanVars, discVars, loopVars, runVars,
                   prVars>>

\* loadRulesWithOverrides throws
LoadReject ==
    /\ loadPc = "start"
    /\ loadRulesWithOverrides(LoadOptions).error # None
    /\ loadError' = loadRulesWithOverrides(LoadOptions).error
    /\ loadPc' = "failed"
    /\ UNCHANGED <<catBase, catOverride, loadedRules>>
    /\ UNCHANGED <<polVars, scoreVars, scanVars, discVars, loopVars, runVars,
                   prVars>>

NextLoad == LoadAccept \/ LoadReject

----------------------------------------------------------------------------
(* Rule loader properties                                                  *)

RulesOf(dir) ==
    Flatten([f \in DOMAIN dir.files |->
                IF dir.files[f].rules = None THEN <<>>
                ELSE dir.files[f].rules[1]])

\* C22: when the base catalog and the override catalog both define a rule
\* with the same id, loadRulesWithOverrides returns exactly one rule with
\* that id and it is the override's definition.
OverrideWinsOnSameId ==
    (loadPc = "loaded" /\ catOverride # None) =>
        \A b \in Range(RulesOf(catBase)),
           o \in Range(RulesOf(catOverride[1])) :
            b.id = o.id =>
                /\ Cardinality({k \in DOMAIN loadedRules[1].rules :
                                    loadedRules[1].rules[k].id = b.id}) = 1
                /\ \A k \in DOMAIN loadedRules[1].rules :
                        loadedRules[1].rules[k].id = b.id =>
                            loadedRules[1].rules[k] \in Range(RulesOf(catOverride[1]))

\* both catalogs define A, differently, and the base catalog another rule
OverrideWinsOnSameIdWitness ==
    /\ loadPc = "loaded"
    /\ catOverride # None
    /\ RuleDocA \in Range(RulesOf(catBase))
    /\ RuleDocARedefined \in Range(RulesOf(catOverride[1]))
    /\ Len(loadedRules[1].rules) = 2
    /\ RuleDocARedefined \in Range(loadedRules[1].rules)
    /\ RuleDocA \notin Range(loadedRules[1].rules)

\* the fields the rule model requires
LacksRequiredField(rule) ==
    \/ ~TruthyChars(rule.id)
    \/ ~Truthy(rule.title)
    \/ ~Truthy(rule.description)
    \/ ~Truthy(rule.severity)
    \/ ~Truthy(rule.confidence)
    \/ ~Truthy(rule.category)
    \/ rule.scope = None
    \/ rule.scope[1].file_types = None
    \/ ~Truthy(rule.remediation)

HasEmptyPatternList(rule) == rule.patterns = None \/ rule.patterns[1] = <<>>

\* the rule directories loadRulesWithOverrides reads
DirsRead == {catBase} \cup (IF catOverride = None THEN {} ELSE {catOverride[1]})

\* C23: a rule file containing a rule that lacks any required field of the
\* rule model (id, title, description, severity, confidence, category,
\* scope file types, remediation) or that has an empty pattern list makes
\* rule loading fail, and no partial catalog is returned.
MalformedRuleFailsLoading ==
    (/\ loadPc \in {"loaded", "failed"}
     /\ \E dir \in DirsRead : \E rule \in Range(RulesOf(dir)) :
            LacksRequiredField(rule) \/ HasEmptyPatternList(rule))
    => (loadPc = "failed" /\ loadedRules = None)

----------------------------------------------------------------------------
(* The match loop of scanFile for one pattern, step by step:               *)
(*     const regex = new RegExp(pattern.regex, "gmi");                     *)
(*     let match = regex.exec(content);                                    *)
(*     while (match) { ...; findings.push(...); match = regex.exec(content) } *)
(* The patterns here are literals whose characters may carry a star, as in *)
(* x* and 1x*; a starred character is the last of its pattern, so taking   *)
(* the longest run is what the regular expression does.                    *)

\* the pattern source as a list of characters, each starred or not
RECURSIVE RegexAtoms(_)
RegexAtoms(source) ==
    IF source = <<>> THEN <<>>
    ELSE IF Len(source) >= 2 /\ source[2] = "*"
    THEN <<[char |-> source[1], star |-> TRUE]>>
         \o RegexAtoms(SubSeq(source, 3, Len(source)))
    ELSE <<[char |-> source[1], star |-> FALSE]>> \o RegexAtoms(Tail(source))

\* how many characters equal to c, up to letter case, follow offset i
RunLength(c, content, i) ==
    LET ends == {k \in 0..(Len(content) - i) :
                    \A j \in 1..k : LowerChar(content[i + j]) = LowerChar(c)}
    IN  CHOOSE k \in ends : \A l \in ends : l <= k

\* the length of the match of atoms at 0-based offset i, -1 if none
RECURSIVE MatchLengthAt(_, _, _)
MatchLengthAt(atoms, content, i) ==
    IF atoms = <<>> THEN 0
    ELSE LET a == Head(atoms)
             taken == IF a.star THEN RunLength(a.char, content, i)
                      ELSE IF /\ i < Len(content)
                              /\ LowerChar(content[i + 1]) = LowerChar(a.char)
                           THEN 1 ELSE -1
             rest == IF taken < 0 THEN -1
                     ELSE MatchLengthAt(Tail(atoms), content, i + taken)
         IN  IF taken < 0 \/ rest < 0 THEN -1 ELSE taken + rest

\* RegExp.prototype.exec of a global expression: the search starts at
\* lastIndex; a match sets lastIndex to its end, which for an empty match is
\* its own offset; a failed search returns null and resets lastIndex to 0
regexExec(source, content, from) ==
    LET atoms == RegexAtoms(source)
        hits == {i \in from..Len(content) :
                    MatchLengthAt(atoms, content, i) >= 0}
        index == CHOOSE i \in hits : \A j \in hits : i <= j
    IN  IF hits = {} THEN [match |-> None, lastIndex |-> 0]
        ELSE [match |-> Some([index |-> index,
                              text |-> SubSeq(content, index + 1,
                                  index + MatchLengthAt(atoms, content, index))]),
              lastIndex |-> index + MatchLengthAt(atoms, content, index)]

MatchLoopContents ==
    { <<>>, <<"x">>, <<"1", "x", "x">>, <<"a", "x", "1">>, <<"x", LF, "X">> }

\* the pattern the loop runs: the first of the rule
LoopRegex == loopRule.patterns[1][1].regex[1]

MatchLoopIdle ==
    /\ loopRule = RuleDocA
    /\ loopContent = <<>>
    /\ loopPc = "idle"
    /\ loopLastIndex = 0
    /\ loopMatch = None

MatchLoopStart ==
    /\ loopRule \in RuleDocUniverse
    /\ loopContent \in MatchLoopContents
    /\ loopPc = "start"
    /\ loopLastIndex = 0
    /\ loopMatch = None

\* rule loading refuses the rule: it never reaches a scan
LoopRuleRejected ==
    /\ loopPc = "start"
    /\ validateRule(loopRule) # None
    /\ loopPc' = "rejected"
    /\ UNCHANGED <<loopRule, loopContent, loopLastIndex, loopMatch>>
    /\ UNCHANGED <<polVars, scoreVars, scanVars, discVars, loadVars, runVars,
                   prVars>>

\* rule loading accepts the rule; new RegExp and the first regex.exec
LoopFirstExec ==
    /\ loopPc = "start"
    /\ validateRule(loopRule) = None
    /\ loopMatch' = regexExec(LoopRegex, loopContent, 0).match
    /\ loopLastIndex' = regexExec(LoopRegex, loopContent, 0).lastIndex
    /\ loopPc' = "while"
    /\ UNCHANGED <<loopRule, loopContent>>
    /\ UNCHANGED <<polVars, scoreVars, scanVars, discVars, loadVars, runVars,
                   prVars>>

\* while (match): the body is entered
LoopEnter ==
    /\ loopPc = "while"
    /\ loopMatch # None
    /\ loopPc' = "body"
    /\ UNCHANGED <<loopRule, loopContent, loopLastIndex, loopMatch>>
    /\ UNCHANGED <<polVars, scoreVars, scanVars, discVars, loadVars, runVars,
                   prVars>>

\* while (match): match is null and the loop is left
LoopExit ==
    /\ loopPc = "while"
    /\ loopMatch = None
    /\ loopPc' = "done"
    /\ UNCHANGED <<loopRule, loopContent, loopLastIndex, loopMatch>>
    /\ UNCHANGED <<polVars, scoreVars, scanVars, discVars, loadVars, runVars,
                   prVars>>

\* the body: the finding of the match is pushed and regex.exec runs again
LoopBody ==
    /\ loopPc = "body"
    /\ loopMatch' = regexExec(LoopRegex, loopContent, loopLastIndex).match
    /\ loopLastIndex' = regexExec(LoopRegex, loopContent, loopLastIndex).lastIndex
    /\ loopPc' = "while"
    /\ UNCHANGED <<loopRule, loopContent>>
    /\ UNCHANGED <<polVars, scoreVars, scanVars, discVars, loadVars, runVars,
                   prVars>>

NextMatchLoop ==
    LoopRuleRejected \/ LoopFirstExec \/ LoopEnter \/ LoopExit \/ LoopBody

\* C29: for every rule pattern that rule loading accepts and every file
\* content, the match loop in scanFile terminates.
MatchLoopTerminates == <>(loopPc \in {"done", "rejected"})

----------------------------------------------------------------------------
(* Run store.  A Date is its time in milliseconds.  The index file holds   *)
(* {latest, runs}; the report file and the policy file of a run are        *)
(* written under names made from the run's unique id and are left out, as  *)
(* is the policy field of an entry: no call of the model reads them.       *)

MS_PER_SECOND == 1000

\* toISOString with the milliseconds and the colons removed: a text of fixed
\* width that names the whole second of the date, represented by the number
\* of that second; such texts compare as their numbers do
formatTimestamp(date) == date \div MS_PER_SECOND

\* a run id is `${base}` (suffix 0 here) or `${base}-${counter}`
RunId(base, suffix) == [base |-> base, suffix |-> suffix]

uniqueId(base, existing) ==
    IF RunId(base, 0) \notin existing THEN RunId(base, 0)
    ELSE LET free == {c \in 1..(Cardinality(existing) + 1) :
                        RunId(base, c) \notin existing}
         IN  RunId(base, CHOOSE c \in free : \A d \in free : c <= d)

\* a.id.localeCompare(b.id): texts of equal width up to the suffix; the id
\* without a suffix is a prefix of the others and comes first, two suffixes
\* compare as the texts of their counters
compareRunIds(a, b) ==
    IF a.base # b.base THEN Sign(a.base - b.base)
    ELSE IF a.suffix = b.suffix THEN 0
    ELSE IF a.suffix = 0 THEN -1
    ELSE IF b.suffix = 0 THEN 1
    ELSE compareStrings(Decimal(a.suffix), Decimal(b.suffix))

compareRunEntries(a, b) ==
    IF a.created # b.created
    THEN (IF a.created > b.created THEN -1 ELSE 1)
    ELSE compareRunIds(a.id, b.id)

\* the entry writeRun makes and the index it writes
writeRun(index, report, now) ==
    LET created == formatTimestamp(now)
        id == uniqueId(created, {index.runs[i].id : i \in DOMAIN index.runs})
        entry == [id |-> id, created |-> created,
                  report |-> id, total_score |-> report.total_score]
        runs == StableSort(Append(index.runs, entry), compareRunEntries)
    IN  [entry |-> entry,
         index |-> [latest |-> Some(runs[1].report), runs |-> runs]]

listRuns(index) == StableSort(index.runs, compareRunEntries)

\* index.runs[0], or an error when there is no run
loadLatestSummary(index) ==
    IF index.runs = <<>> THEN None ELSE Some(index.runs[1])

MaxRuns == 3

\* how far the clock moves between two writeRun calls, in milliseconds
ClockSteps == {0, 400, 1000}

ReportUniverse == {[total_score |-> 10], [total_score |-> 90]}

RunStoreIdle ==
    /\ runNow = 0
    /\ runIndex = [latest |-> None, runs |-> <<>>]
    /\ runWritten = <<>>
    /\ runListed = None
    /\ runLatest = None

\* no index file yet: loadIndex returns {runs: []}
RunStoreStart ==
    /\ runNow \in {0, 600}
    /\ runIndex = [latest |-> None, runs |-> <<>>]
    /\ runWritten = <<>>
    /\ runListed = None
    /\ runLatest = None

\* writeRun(dataDir, report) at a time not before the previous call's
WriteRun ==
    /\ Len(runWritten) < MaxRuns
    /\ \E step \in ClockSteps, report \in ReportUniverse :
        /\ runNow' = runNow + step
        /\ runIndex' = writeRun(runIndex, report, runNow').index
        /\ runWritten' =
              Append(runWritten, writeRun(runIndex, report, runNow').entry)
    /\ UNCHANGED <<runListed, runLatest>>
    /\ UNCHANGED <<polVars, scoreVars, scanVars, discVars, loadVars, loopVars,
                   prVars>>

\* listRuns(dataDir)
ListRuns ==
    /\ runListed' = Some(listRuns(runIndex))
    /\ UNCHANGED <<runNow, runIndex, runWritten, runLatest>>
    /\ UNCHANGED <<polVars, scoreVars, scanVars, discVars, loadVars, loopVars,
                   prVars>>

\* loadLatestSummary(dataDir), which throws when there is no run
LoadLatestSummary ==
    /\ loadLatestSummary(runIndex) # None
    /\ runLatest' = loadLatestSummary(runIndex)
    /\ UNCHANGED <<runNow, runIndex, runWritten, runListed>>
    /\ UNCHANGED <<polVars, scoreVars, scanVars, discVars, loadVars, loopVars,
                   prVars>>

NextRunStore == WriteRun \/ ListRuns \/ LoadLatestSummary

----------------------------------------------------------------------------
(* Run store properties                                                    *)

\* the position of an entry among the writeRun calls made so far
WrittenAt(entry) == CHOOSE k \in DOMAIN runWritten : runWritten[k] = entry

\* runs written later come first
NewestFirst(runs) ==
    \A i, j \in DOMAIN runs : i < j => WrittenAt(runs[i]) > WrittenAt(runs[j])

\* C25: after any sequence of writeRun calls with non-decreasing timestamps,
\* listRuns returns the runs newest-first and loadLatestSummary returns the
\* run written by the most recent writeRun call.
LatestRunFirst ==
    [][/\ ListRuns => NewestFirst(runListed'[1])
       /\ LoadLatestSummary => runLatest' = Some(runWritten[Len(runWritten)])
      ]_vars

----------------------------------------------------------------------------
(* Pull-request comments.  A comment is its id and its body; of a body the *)
(* model keeps whether it contains COMMENT_MARKER and which report text it *)
(* carries.  issues.listComments returns the comments in creation order.   *)

PER_PAGE == 100

\* listComments({per_page: 100}): the first page
listComments(comments) == SubSeq(comments, 1, Min(Len(comments), PER_PAGE))

\* the id of the first listed comment whose body includes the marker
findExistingComment(comments) ==
    LET data == listComments(comments)
        hits == {i \in DOMAIN data : data[i].body.marker}
    IN  IF hits = {} THEN None
        ELSE Some(data[CHOOSE i \in hits : \A j \in hits : i <= j].id)

\* issues.updateComment or issues.createComment
postOrUpdateComment(comments, nextId, body) ==
    LET existing == findExistingComment(comments)
    IN  IF existing # None
        THEN [comments |-> [i \in DOMAIN comments |->
                              IF comments[i].id = existing[1]
                              THEN [comments[i] EXCEPT !.body = body]
                              ELSE comments[i]],
              nextId |-> nextId]
        ELSE [comments |-> Append(comments, [id |-> nextId, body |-> body]),
              nextId |-> nextId + 1]

MaxCommentCalls == 3

\* bodies the action posts: two reports with the marker, one text without
CommentBodies ==
    { [marker |-> TRUE, text |-> "report 1"],
      [marker |-> TRUE, text |-> "report 2"],
      [marker |-> FALSE, text |-> "report 1"] }

\* a comment of someone else, without the marker
OtherComment(id) == [id |-> id, body |-> [marker |-> FALSE, text |-> "other"]]

\* how many comments the pull request has before the first call
PriorCommentCounts == {0, 1, PER_PAGE - 1, PER_PAGE}

CommentIdle ==
    /\ prComments = <<>>
    /\ prNextId = 1
    /\ prCalls = -1

CommentStart ==
    /\ \E n \in PriorCommentCounts :
        /\ prComments = [i \in 1..n |-> OtherComment(i)]
        /\ prNextId = n + 1
    /\ prCalls = 0

\* postOrUpdateComment finds the marked comment and updates it
UpdateComment ==
    /\ prCalls \in 0..(MaxCommentCalls - 1)
    /\ findExistingComment(prComments) # None
    /\ \E body \in CommentBodies :
        /\ prComments' = postOrUpdateComment(prComments, prNextId, body).comments
        /\ prNextId' = postOrUpdateComment(prComments, prNextId, body).nextId
    /\ prCalls' = prCalls + 1
    /\ UNCHANGED <<polVars, scoreVars, scanVars, discVars, loadVars, loopVars,
                   runVars>>

\* postOrUpdateComment finds no marked comment and creates one
CreateComment ==
    /\ prCalls \in 0..(MaxCommentCalls - 1)
    /\ findExistingComment(prComments) = None
    /\ \E body \in CommentBodies :
        /\ prComments' = postOrUpdateComment(prComments, prNextId, body).comments
        /\ prNextId' = postOrUpdateComment(prComments, prNextId, body).nextId
    /\ prCalls' = prCalls + 1
    /\ UNCHANGED <<polVars, scoreVars, scanVars, discVars, loadVars, loopVars,
                   runVars>>

NextComment == UpdateComment \/ CreateComment

\* C26: after any number of sequential postOrUpdateComment calls on a pull
\* request, the pull request has at most one comment containing the marker.
AtMostOneMarkedComment ==
    Cardinality({i \in DOMAIN prComments : prComments[i].body.marker}) <= 1

----------------------------------------------------------------------------
(* Specifications: one per subsystem; the variables of the others rest.    *)

ScanIdle ==
    /\ scanFiles = <<>>
    /\ scanRules = <<>>
    /\ scanPc = "idle"
    /\ scanOut = <<>>
    /\ scanPrevOut = <<>>

DiscoveryIdle ==
    /\ tree = {}
    /\ ignoreLines = <<>>
    /\ dPc = "idle"
    /\ dStack = <<>>
    /\ visitedDirs = {}
    /\ entries = <<>>
    /\ skippedLinks = {}

\* the rule loader, the match loop, the run store and the pull-request
\* comments have not been started
OthersIdle == LoadIdle /\ MatchLoopIdle /\ RunStoreIdle /\ CommentIdle

\* policy, scoring, scan and discovery have not been started
CoreIdle == PolicyIdle /\ ScoreIdle /\ ScanIdle /\ DiscoveryIdle

InitPolicy == PolicyStart /\ ScoreIdle /\ ScanIdle /\ DiscoveryIdle /\ OthersIdle
SpecPolicy == InitPolicy /\ [][NextPolicy]_vars

InitScore == PolicyIdle /\ ScoreStart /\ ScanIdle /\ DiscoveryIdle /\ OthersIdle
SpecScore == InitScore /\ [][NextScore]_vars

InitScan == PolicyIdle /\ ScoreIdle /\ ScanStart /\ DiscoveryIdle /\ OthersIdle
SpecScan == InitScan /\ [][NextScan]_vars

InitDiscovery == PolicyIdle /\ ScoreIdle /\ ScanIdle /\ DiscoveryStart /\ OthersIdle
SpecDiscovery == InitDiscovery /\ [][NextDiscovery]_vars

\* A step of the walk is possible exactly while the walk has not returned.
CanStep == dPc \in {"start", "walking"}

\* discoverFiles is one sequential computation: while a step of the walk is
\* possible the next one is taken.  The second conjunct is weak fairness of
\* NextDiscovery with its enabling condition written as CanStep; the first
\* is the instance of it for the return from a directory.
SpecDiscoveryLive ==
    /\ SpecDiscovery
    /\ WF_vars(ReturnFromDirectory)
    /\ ([]<>(~CanStep) \/ []<><<NextDiscovery>>_vars)

InitLoad == CoreIdle /\ LoadStart /\ MatchLoopIdle /\ RunStoreIdle /\ CommentIdle
SpecLoad == InitLoad /\ [][NextLoad]_vars

InitMatchLoop ==
    CoreIdle /\ LoadIdle /\ MatchLoopStart /\ RunStoreIdle /\ CommentIdle
SpecMatchLoop == InitMatchLoop /\ [][NextMatchLoop]_vars

\* scanFile runs the loop without interruption: while a step of the loop is
\* possible the next one is taken.  The last two conjuncts are weak fairness
\* of LoopFirstExec and of LoopBody with their enabling conditions written
\* out.
SpecMatchLoopLive ==
    /\ SpecMatchLoop
    /\ WF_vars(LoopRuleRejected)
    /\ WF_vars(LoopEnter)
    /\ WF_vars(LoopExit)
    /\ \/ []<>(~(loopPc = "start" /\ validateRule(loopRule) = None))
       \/ []<><<LoopFirstExec>>_vars
    /\ \/ []<>(loopPc # "body")
       \/ []<><<LoopBody>>_vars

InitRunStore ==
    CoreIdle /\ LoadIdle /\ MatchLoopIdle /\ RunStoreStart /\ CommentIdle
SpecRunStore == InitRunStore /\ [][NextRunStore]_vars

InitComment ==
    CoreIdle /\ LoadIdle /\ MatchLoopIdle /\ RunStoreIdle /\ CommentStart
SpecComment == InitComment /\ [][NextComment]_vars

====
